---- MODULE Spec2Model ----
(***************************************************************************)
(* Verification model of the gorepos configuration graph: the graph model  *)
(* (GraphNode, Relationship, RepositoryGraph), the index and query engine  *)
(* (RepositoryGraphImpl) and the graph builder (GraphBuilder.BuildGraph).  *)
(*                                                                         *)
(* Conventions.  A Go string is a sequence of tokens (a token is a TLA+    *)
(* string standing for one or more characters that are never split), so    *)
(* strings.Join, strings.HasPrefix, strings.ReplaceAll and fmt.Sprintf are *)
(* computed on token sequences.  A Go pointer that may be nil is a         *)
(* sequence of length 0 (nil) or 1.  A Go map is a function whose DOMAIN   *)
(* is the set of keys present.                                             *)
(***************************************************************************)
EXTENDS Integers, Sequences, FiniteSets, TLC

(***************************************************************************)
(* Strings                                                                 *)
(***************************************************************************)
Nil == <<>>
Some(x) == <<x>>

EmptyStr == <<>>
RootStr == <<"root">>

\* byte order of the tokens that occur in compared strings
Alphabet == <<".yaml", "/", "_", "a", "ab", "api", "b", "db", "dev", "env", "g", "h", "l", "m",
              "prod", "root", "web">>

TokenRank(t) == CHOOSE i \in 1..Len(Alphabet) : Alphabet[i] = t

RECURSIVE StrLess(_, _)
StrLess(s, t) ==
    IF Len(t) = 0 THEN FALSE
    ELSE IF Len(s) = 0 THEN TRUE
    ELSE IF s[1] = t[1] THEN StrLess(Tail(s), Tail(t))
    ELSE TokenRank(s[1]) < TokenRank(t[1])

RECURSIVE Join(_, _)
Join(elems, sep) ==
    IF Len(elems) = 0 THEN EmptyStr
    ELSE IF Len(elems) = 1 THEN elems[1]
    ELSE elems[1] \o <<sep>> \o Join(Tail(elems), sep)

HasPrefix(s, prefix) ==
    /\ Len(prefix) <= Len(s)
    /\ SubSeq(s, 1, Len(prefix)) = prefix

HasSuffix(s, suffix) ==
    /\ Len(suffix) <= Len(s)
    /\ SubSeq(s, Len(s) - Len(suffix) + 1, Len(s)) = suffix

ReplaceAll(s, old, new) == [i \in 1..Len(s) |-> IF s[i] = old THEN new ELSE s[i]]

\* sort.Strings, as an insertion sort
RECURSIVE InsertSorted(_, _)
InsertSorted(sorted, s) ==
    IF Len(sorted) = 0 THEN <<s>>
    ELSE IF StrLess(s, sorted[1]) THEN <<s>> \o sorted
    ELSE <<sorted[1]>> \o InsertSorted(Tail(sorted), s)

RECURSIVE SortStrings(_)
SortStrings(strs) ==
    IF Len(strs) = 0 THEN <<>>
    ELSE InsertSorted(SortStrings(Tail(strs)), strs[1])

Range(f) == {f[x] : x \in DOMAIN f}

(***************************************************************************)
(* Go maps                                                                 *)
(***************************************************************************)
EmptyMap == <<>>
HasKey(m, k) == k \in DOMAIN m
MapPut(m, k, v) == [x \in (DOMAIN m) \cup {k} |-> IF x = k THEN v ELSE m[x]]
MapDelete(m, k) == [x \in (DOMAIN m) \ {k} |-> m[x]]
\* a slice-valued map read at a missing key gives the nil slice
SliceAt(m, k) == IF k \in DOMAIN m THEN m[k] ELSE <<>>
MapAppend(m, k, v) == MapPut(m, k, Append(SliceAt(m, k), v))

(***************************************************************************)
(* Node and relation types                                                 *)
(***************************************************************************)
NodeTypeRoot == "root"
NodeTypeConfig == "config"
NodeTypeRepository == "repository"
NodeTypeGroup == "group"
NodeTypeTag == "tag"
NodeTypeLabel == "label"

RelationParentChild == "parent_child"
RelationIncludes == "includes"
RelationDefines == "defines"
RelationTaggedWith == "tagged_with"
RelationLabeledWith == "labeled_with"

NewGraphNode(id, nodeType, name) ==
    [ID |-> id, Type |-> nodeType, Name |-> name,
     Level |-> 0, Path |-> <<>>, FullPath |-> EmptyStr,
     Parent |-> Nil, Children |-> <<>>, Tags |-> <<>>,
     IsDerived |-> FALSE, SourceConfig |-> EmptyStr, IsExplicit |-> TRUE,
     Config |-> Nil, Repository |-> Nil, Group |-> Nil, Tag |-> Nil, Label |-> Nil]

NewRelationship(id, fromID, toID, relType) ==
    [ID |-> id, FromID |-> fromID, ToID |-> toID, Type |-> relType]

NewRepositoryGraph ==
    [Root |-> Nil, Nodes |-> EmptyMap, Relationships |-> EmptyMap,
     NodesByType |-> EmptyMap, NodesByLevel |-> EmptyMap,
     NodesByPath |-> EmptyMap, NodesByTag |-> EmptyMap,
     RelationsByType |-> EmptyMap, RelationsByFrom |-> EmptyMap,
     RelationsByTo |-> EmptyMap,
     AllRepositories |-> EmptyMap, AllGroups |-> EmptyMap]

\* Variant of MarkAsDerived that leaves IsExplicit as it is
MarkAsDerivedOnly(n, sourceConfigID) ==
    [n EXCEPT !.IsDerived = TRUE, !.SourceConfig = sourceConfigID]

MarkAsDerived(n, sourceConfigID) ==
    [n EXCEPT !.IsDerived = TRUE, !.IsExplicit = FALSE, !.SourceConfig = sourceConfigID]

MarkAsExplicit(n, sourceConfigID) ==
    [n EXCEPT !.IsDerived = FALSE, !.IsExplicit = TRUE, !.SourceConfig = sourceConfigID]

\* the value GetPathString returns; it also stores that value in FullPath
PathStringOf(path, fullPath) ==
    IF fullPath = EmptyStr
    THEN IF Join(path, "/") = EmptyStr THEN RootStr ELSE Join(path, "/")
    ELSE fullPath

GetPathString(n) == PathStringOf(n.Path, n.FullPath)

CachePathString(n) == [n EXCEPT !.FullPath = GetPathString(n)]

IsInScope(n, scopeNode) ==
    IF scopeNode.Type = NodeTypeRoot THEN TRUE
    ELSE IF GetPathString(scopeNode) = RootStr THEN GetPathString(n) = RootStr
    ELSE \/ GetPathString(n) = GetPathString(scopeNode)
         \/ HasPrefix(GetPathString(n), GetPathString(scopeNode) \o <<"/">>)

(***************************************************************************)
(* Index and query engine (RepositoryGraphImpl).  A mutator returns the    *)
(* graph it leaves behind and its error ("nil" when it succeeds).          *)
(***************************************************************************)
NoError == "nil"
ErrDuplicateNode == "duplicate_node"
ErrDuplicateRelationship == "duplicate_relationship"
ErrCircularDependency == "circular_dependency"
ErrLoadConfig == "load_config"
ErrDanglingRelationship == "dangling_relationship"
ErrStructuralCycle == "structural_cycle"
ErrNoSuchNode == "no_such_node"
ErrNoSuchRelationship == "no_such_relationship"

GetNode(g, id) == IF HasKey(g.Nodes, id) THEN Some(g.Nodes[id]) ELSE Nil

GetNodesByType(g, nodeType) == SliceAt(g.NodesByType, nodeType)

RECURSIVE IndexTags(_, _, _)
IndexTags(byTag, tags, id) ==
    IF Len(tags) = 0 THEN byTag
    ELSE IndexTags(MapAppend(byTag, tags[1], id), Tail(tags), id)

\* the index updates shared by AddNode and the loop body of BuildIndexes
IndexNode(g, n) ==
    [g EXCEPT !.NodesByType = MapAppend(@, n.Type, n.ID),
              !.NodesByLevel = MapAppend(@, n.Level, n.ID),
              !.NodesByPath = MapPut(@, GetPathString(n), n.ID),
              !.NodesByTag = IndexTags(@, n.Tags, n.ID),
              !.AllRepositories =
                  IF n.Type = NodeTypeRepository THEN MapPut(@, n.Name, n.ID) ELSE @,
              !.AllGroups =
                  IF n.Type = NodeTypeGroup THEN MapPut(@, n.Name, n.ID) ELSE @]

\* Variant of AddNode without the test for an existing ID: the node replaces the old one
AddNodeOverwrite(g, node) ==
    [graph |-> IndexNode([g EXCEPT !.Nodes = MapPut(@, node.ID, CachePathString(node))], node),
     err |-> NoError]

\* Variant of AddNode that updates the indexes before it looks the ID up
AddNodeIndexFirst(g, node) ==
    IF HasKey(g.Nodes, node.ID)
    THEN [graph |-> IndexNode(g, node), err |-> ErrDuplicateNode]
    ELSE [graph |-> IndexNode([g EXCEPT !.Nodes = MapPut(@, node.ID, CachePathString(node))],
                              node),
          err |-> NoError]

AddNode(g, node) ==
    IF HasKey(g.Nodes, node.ID)
    THEN [graph |-> g, err |-> ErrDuplicateNode]
    ELSE [graph |-> IndexNode([g EXCEPT !.Nodes = MapPut(@, node.ID, CachePathString(node))],
                              node),
          err |-> NoError]

IndexRelationship(g, rel) ==
    [g EXCEPT !.RelationsByType = MapAppend(@, rel.Type, rel.ID),
              !.RelationsByFrom = MapAppend(@, rel.FromID, rel.ID),
              !.RelationsByTo = MapAppend(@, rel.ToID, rel.ID)]

AddRelationship(g, rel) ==
    IF HasKey(g.Relationships, rel.ID)
    THEN [graph |-> g, err |-> ErrDuplicateRelationship]
    ELSE [graph |-> IndexRelationship([g EXCEPT !.Relationships = MapPut(@, rel.ID, rel)], rel),
          err |-> NoError]

\* parent.AddChild(child), both nodes held in g.Nodes
AddChild(g, parentID, childID) ==
    LET parent == g.Nodes[parentID]
        path == IF parent.Type # NodeTypeRoot
                THEN Append(parent.Path, parent.Name)
                ELSE parent.Path
        fullPath == IF Join(path, "/") = EmptyStr THEN RootStr ELSE Join(path, "/")
    IN [g EXCEPT !.Nodes[childID].Parent = Some(parentID),
                 !.Nodes[childID].Level = parent.Level + 1,
                 !.Nodes[childID].Path = path,
                 !.Nodes[childID].FullPath = fullPath,
                 !.Nodes[parentID].Children = Append(@, childID)]

\* every order in which a range loop may visit the keys of a Go map
IterationOrders(keys) ==
    {ord \in [1..Cardinality(keys) -> keys] : Range(ord) = keys}

RECURSIVE Enumerate(_)
Enumerate(keys) ==
    IF keys = {} THEN <<>>
    ELSE LET k == CHOOSE x \in keys : TRUE IN <<k>> \o Enumerate(keys \ {k})

Reverse(seq) == [i \in 1..Len(seq) |-> seq[Len(seq) + 1 - i]]

\* The orders explored for a range loop over a whole node or relationship map: one
\* enumeration of the keys and its reverse, so that of any two keys either may be
\* visited last.
ScanOrders(keys) == {Enumerate(keys), Reverse(Enumerate(keys))}

\* append(s[:i], s[i+1:]...) at the first i whose element is x; s when there is none
RECURSIVE RemoveFirst(_, _)
RemoveFirst(seq, x) ==
    IF Len(seq) = 0 THEN <<>>
    ELSE IF seq[1] = x THEN Tail(seq)
    ELSE <<seq[1]>> \o RemoveFirst(Tail(seq), x)

\* the loop shared by the removeFrom... helpers: the key is written only when the
\* element is found
RemoveFromIndex(index, key, id) ==
    IF \E i \in 1..Len(SliceAt(index, key)) : SliceAt(index, key)[i] = id
    THEN MapPut(index, key, RemoveFirst(index[key], id))
    ELSE index

removeFromTypeIndex(g, node) ==
    [g EXCEPT !.NodesByType = RemoveFromIndex(@, node.Type, node.ID)]

removeFromLevelIndex(g, node) ==
    [g EXCEPT !.NodesByLevel = RemoveFromIndex(@, node.Level, node.ID)]

RECURSIVE UnindexTags(_, _, _)
UnindexTags(byTag, tags, id) ==
    IF Len(tags) = 0 THEN byTag
    ELSE UnindexTags(RemoveFromIndex(byTag, tags[1], id), Tail(tags), id)

removeFromTagIndexes(g, node) ==
    [g EXCEPT !.NodesByTag = UnindexTags(@, node.Tags, node.ID)]

removeFromRelationshipIndexes(g, rel) ==
    [g EXCEPT !.RelationsByType = RemoveFromIndex(@, rel.Type, rel.ID),
              !.RelationsByFrom = RemoveFromIndex(@, rel.FromID, rel.ID),
              !.RelationsByTo = RemoveFromIndex(@, rel.ToID, rel.ID)]

RemoveRelationship(g, id) ==
    IF ~HasKey(g.Relationships, id)
    THEN [graph |-> g, err |-> ErrNoSuchRelationship]
    ELSE [graph |-> removeFromRelationshipIndexes(
                        [g EXCEPT !.Relationships = MapDelete(@, id)], g.Relationships[id]),
          err |-> NoError]

\* the second loop of RemoveNode; the errors of RemoveRelationship are not looked at
RECURSIVE RemoveRelationships(_, _)
RemoveRelationships(g, toRemove) ==
    IF Len(toRemove) = 0 THEN g
    ELSE RemoveRelationships(RemoveRelationship(g, toRemove[1]).graph, Tail(toRemove))

\* RemoveNode of a graph whose nodes may have their parent among the node objects of
\* others, which are not in g.Nodes.  The removed node object stays alive: it moves to
\* others.
RemoveNode(g, others, id) ==
    IF ~HasKey(g.Nodes, id)
    THEN [graph |-> g, others |-> others, err |-> ErrNoSuchNode]
    ELSE LET node == g.Nodes[id]
             parentID == node.Parent[1]
             inGraph == Len(node.Parent) = 1 /\ HasKey(g.Nodes, parentID)
             inOthers == Len(node.Parent) = 1 /\ HasKey(others, parentID)
             detached == IF inGraph
                         THEN [g EXCEPT !.Nodes[parentID].Children = RemoveFirst(@, id)]
                         ELSE g
             kept == IF inOthers
                     THEN [others EXCEPT ![parentID].Children = RemoveFirst(@, id)]
                     ELSE others
             toRemove == {relID \in DOMAIN g.Relationships :
                             \/ g.Relationships[relID].FromID = id
                             \/ g.Relationships[relID].ToID = id}
             unrelated == RemoveRelationships(detached, Enumerate(toRemove))
             removed == detached.Nodes[id]
             unindexed ==
                 removeFromTagIndexes(
                     [removeFromLevelIndex(removeFromTypeIndex(
                          [unrelated EXCEPT !.Nodes = MapDelete(@, id)], removed), removed)
                         EXCEPT !.NodesByPath = MapDelete(@, GetPathString(removed))],
                     removed)
         IN [graph |-> [unindexed EXCEPT
                           !.AllRepositories =
                               IF removed.Type = NodeTypeRepository
                               THEN MapDelete(@, removed.Name) ELSE @,
                           !.AllGroups =
                               IF removed.Type = NodeTypeGroup
                               THEN MapDelete(@, removed.Name) ELSE @],
             others |-> MapPut(kept, id, CachePathString(removed)),
             err |-> NoError]

\* parent.AddChild(child) where each of the two node objects is in g.Nodes or in others
AddChildAmong(g, others, parentID, childID) ==
    LET linked == AddChild([g EXCEPT !.Nodes = g.Nodes @@ others], parentID, childID)
    IN [graph |-> [g EXCEPT !.Nodes = [id \in DOMAIN g.Nodes |-> linked.Nodes[id]]],
        others |-> [id \in DOMAIN others |-> linked.Nodes[id]]]

RECURSIVE IndexNodes(_, _)
IndexNodes(g, ord) ==
    IF Len(ord) = 0 THEN g
    ELSE IndexNodes(IndexNode(g, g.Nodes[ord[1]]), Tail(ord))

RECURSIVE IndexRelationships(_, _)
IndexRelationships(g, ord) ==
    IF Len(ord) = 0 THEN g
    ELSE IndexRelationships(IndexRelationship(g, g.Relationships[ord[1]]), Tail(ord))

\* nodeOrder and relOrder are the orders in which the two range loops visit the maps
BuildIndexes(g, nodeOrder, relOrder) ==
    LET cleared == [g EXCEPT !.NodesByType = EmptyMap, !.NodesByLevel = EmptyMap,
                             !.NodesByPath = EmptyMap, !.NodesByTag = EmptyMap,
                             !.RelationsByType = EmptyMap, !.RelationsByFrom = EmptyMap,
                             !.RelationsByTo = EmptyMap,
                             !.AllRepositories = EmptyMap, !.AllGroups = EmptyMap]
        withPaths == [cleared EXCEPT !.Nodes = [id \in DOMAIN g.Nodes |->
                                                   CachePathString(g.Nodes[id])]]
    IN IndexRelationships(IndexNodes(withPaths, nodeOrder), relOrder)

\* nodes maps the ID of every node object that can be reached to the object
RECURSIVE checkCycles(_, _, _, _)
RECURSIVE checkCyclesOfChildren(_, _, _, _)
\* Variant of checkCycles that takes a node visited before for a node of the current path
checkCyclesVisitedOnce(nodes, id, visitedIDs, path) ==
    IF id \in path \/ id \in visitedIDs THEN [visited |-> visitedIDs, cycle |-> TRUE]
    ELSE checkCyclesOfChildren(nodes, nodes[id].Children, visitedIDs \cup {id}, path \cup {id})

checkCycles(nodes, id, visitedIDs, path) ==
    IF id \in path THEN [visited |-> visitedIDs, cycle |-> TRUE]
    ELSE IF id \in visitedIDs THEN [visited |-> visitedIDs, cycle |-> FALSE]
    ELSE checkCyclesOfChildren(nodes, nodes[id].Children, visitedIDs \cup {id}, path \cup {id})

checkCyclesOfChildren(nodes, children, visitedIDs, path) ==
    IF Len(children) = 0 THEN [visited |-> visitedIDs, cycle |-> FALSE]
    ELSE LET r == checkCycles(nodes, children[1], visitedIDs, path)
         IN IF r.cycle THEN r
            ELSE checkCyclesOfChildren(nodes, Tail(children), r.visited, path)

RECURSIVE checkCyclesFrom(_, _, _)
checkCyclesFrom(nodes, ord, visitedIDs) ==
    IF Len(ord) = 0 THEN FALSE
    ELSE IF ord[1] \in visitedIDs THEN checkCyclesFrom(nodes, Tail(ord), visitedIDs)
    ELSE LET r == checkCycles(nodes, ord[1], visitedIDs, {})
         IN IF r.cycle THEN TRUE ELSE checkCyclesFrom(nodes, Tail(ord), r.visited)

\* ValidateGraph of a graph whose children lists may lead to the node objects of
\* others, which are not in g.Nodes; nodeOrder is the order in which the cycle check
\* visits g.Nodes
ValidateGraphAmong(g, others, nodeOrder) ==
    IF \E id \in DOMAIN g.Relationships :
           \/ ~HasKey(g.Nodes, g.Relationships[id].FromID)
           \/ ~HasKey(g.Nodes, g.Relationships[id].ToID)
    THEN ErrDanglingRelationship
    ELSE IF checkCyclesFrom(g.Nodes @@ others, nodeOrder, {}) THEN ErrStructuralCycle
    ELSE NoError

\* ValidateGraph of a graph whose children lists stay within g.Nodes
ValidateGraph(g, nodeOrder) == ValidateGraphAmong(g, EmptyMap, nodeOrder)

(***************************************************************************)
(* Configuration files.  An absolute file path is its sequence of          *)
(* segments; the includes of a loaded record are the absolute paths that    *)
(* filepath.Join(configDir, include) resolves them to.                     *)
(***************************************************************************)
PathMain == << <<"w">>, <<"m", ".yaml">> >>
PathA == << <<"w">>, <<"configs">>, <<"a">>, <<"g", ".yaml">> >>
PathB == << <<"w">>, <<"configs">>, <<"b">>, <<"g", ".yaml">> >>
PathAB == << <<"w">>, <<"configs">>, <<"a">>, <<"b">>, <<"g", ".yaml">> >>
PathMissing == << <<"w">>, <<"missing", ".yaml">> >>

\* the files that exist, and the paths an include entry may name
Files == {PathMain, PathA, PathB, PathAB}
IncludeTargets == Files \cup {PathMissing}
RootPaths == {PathMain, PathA}

\* the first 8 hex digits of the SHA-256 digest of the path: one token per path,
\* different paths having different digests
AllPaths == <<PathMain, PathA, PathB, PathAB, PathMissing>>
HashTokens == <<"h1", "h2", "h3", "h4", "h5">>
Hash8(absPath) == <<HashTokens[CHOOSE i \in 1..Len(AllPaths) : AllPaths[i] = absPath]>>

SeqsUpTo(S, n) == UNION {[1..k -> S] : k \in 0..n}

Min(a, b) == IF a < b THEN a ELSE b

(***************************************************************************)
(* Graph builder (GraphBuilder)                                            *)
(***************************************************************************)
RootID == <<"root">>

RECURSIVE IndexOfSegment(_, _, _)
IndexOfSegment(segments, segment, i) ==
    IF i > Len(segments) THEN 0
    ELSE IF segments[i] = segment THEN i
    ELSE IndexOfSegment(segments, segment, i + 1)

extractHierarchyPath(configPath) ==
    LET configsIndex == IndexOfSegment(configPath, <<"configs">>, 1)
        remaining == SubSeq(configPath, configsIndex + 1, Len(configPath))
    IN IF configsIndex = 0 THEN <<>>
       ELSE IF Len(remaining) > 0 /\ HasSuffix(remaining[Len(remaining)], <<".yaml">>)
       THEN SubSeq(remaining, 1, Len(remaining) - 1)
       ELSE remaining

ConfigNodeID(configPath) == <<"config", "_">> \o Hash8(configPath)

createConfigNode(configPath, config) ==
    LET nodeID == ConfigNodeID(configPath)
        hierarchyPath == extractHierarchyPath(configPath)
        nodeName == IF Len(hierarchyPath) > 0 THEN hierarchyPath[Len(hierarchyPath)]
                    ELSE RootStr
        node == MarkAsExplicit(NewGraphNode(nodeID, NodeTypeConfig, nodeName), nodeID)
    IN [node EXCEPT !.Config = Some(config),
                    !.Path = IF Len(hierarchyPath) > 0
                             THEN SubSeq(hierarchyPath, 1, Len(hierarchyPath) - 1)
                             ELSE <<>>]

ParentChildID(parentID, childID) == <<"pc", "_">> \o parentID \o <<"_">> \o childID
DefinesID(fromID, toID) == <<"def", "_">> \o fromID \o <<"_">> \o toID
IncludesID(fromID, toID) == <<"inc", "_">> \o fromID \o <<"_">> \o toID
TaggedID(fromID, toID) == <<"tagged", "_">> \o fromID \o <<"_">> \o toID
LabeledID(fromID, toID) == <<"labeled", "_">> \o fromID \o <<"_">> \o toID

\* one call of buildConfigHierarchy up to its include loop, for a path that is not
\* marked visited: the graph it leaves and its error
expandConfig(g, absPath, loaded, parentID) ==
    IF Len(loaded) = 0 THEN [graph |-> g, err |-> ErrLoadConfig]
    ELSE LET configNode == createConfigNode(absPath, loaded[1])
             added == AddNode(g, configNode)
         IN IF added.err # NoError THEN added
            ELSE AddRelationship(
                     AddChild(added.graph, parentID, configNode.ID),
                     NewRelationship(ParentChildID(parentID, configNode.ID),
                                     parentID, configNode.ID, RelationParentChild))

RepositoryNodeID(name) == <<"repo", "_">> \o name

\* path and full path of the repository and group nodes a config node defines
DefinedPath(configNode) ==
    IF configNode.Name # RootStr THEN Append(configNode.Path, configNode.Name)
    ELSE configNode.Path

DefinedFullPath(configNode) ==
    IF Join(DefinedPath(configNode), "/") = EmptyStr THEN RootStr
    ELSE Join(DefinedPath(configNode), "/")

createRepositoryNode(repo, configNode) ==
    LET node == MarkAsExplicit(
                    NewGraphNode(RepositoryNodeID(repo.Name), NodeTypeRepository, repo.Name),
                    configNode.ID)
    IN [node EXCEPT !.Repository = Some(repo),
                    !.Path = DefinedPath(configNode),
                    !.FullPath = DefinedFullPath(configNode),
                    !.Level = Len(DefinedPath(configNode))]

\* The loop variable repo of processRepositories, whose address every node made by
\* the loop keeps.  A toolchain that gives the loop one variable (shared) makes all
\* the nodes made so far hold the record the variable holds now; one that gives each
\* iteration its own variable leaves them alone.
AssignLoopVariable(g, made, repo, shared) ==
    IF shared
    THEN [g EXCEPT !.Nodes = [id \in DOMAIN g.Nodes |->
                                 IF id \in made
                                 THEN [g.Nodes[id] EXCEPT !.Repository = Some(repo)]
                                 ELSE g.Nodes[id]]]
    ELSE g

\* made holds the IDs of the nodes the loop has added for this config node
RECURSIVE addRepositories(_, _, _, _, _)
addRepositories(g, configID, repos, made, shared) ==
    IF Len(repos) = 0 THEN [graph |-> g, err |-> NoError]
    ELSE LET current == AssignLoopVariable(g, made, repos[1], shared)
             repoNode == createRepositoryNode(repos[1], current.Nodes[configID])
             added == AddNode(current, repoNode)
             defined == AddRelationship(added.graph,
                            NewRelationship(DefinesID(configID, repoNode.ID),
                                            configID, repoNode.ID, RelationDefines))
         IN IF added.err # NoError THEN added
            ELSE IF defined.err # NoError THEN defined
            ELSE addRepositories(defined.graph, configID, Tail(repos),
                                 made \cup {repoNode.ID}, shared)

RECURSIVE processRepositoriesOf(_, _, _)
processRepositoriesOf(g, configIDs, shared) ==
    IF Len(configIDs) = 0 THEN [graph |-> g, err |-> NoError]
    ELSE LET configNode == g.Nodes[configIDs[1]]
             done == IF Len(configNode.Config) > 0
                     THEN addRepositories(g, configNode.ID, configNode.Config[1].Repositories,
                                          {}, shared)
                     ELSE [graph |-> g, err |-> NoError]
         IN IF done.err # NoError THEN done
            ELSE processRepositoriesOf(done.graph, Tail(configIDs), shared)

\* shared tells whether the toolchain gives the range loop one variable
processRepositories(g, shared) ==
    processRepositoriesOf(g, GetNodesByType(g, NodeTypeConfig), shared)

\* every way to pick, for each key of options, one element of options[key]
RECURSIVE ChoiceFunctions(_)
ChoiceFunctions(options) ==
    IF DOMAIN options = {} THEN {EmptyMap}
    ELSE LET k == CHOOSE x \in DOMAIN options : TRUE
         IN {MapPut(f, k, v) : f \in ChoiceFunctions(MapDelete(options, k)), v \in options[k]}

RECURSIVE NamesInScope(_, _, _)
NamesInScope(g, repoIDs, scopeNode) ==
    IF Len(repoIDs) = 0 THEN <<>>
    ELSE IF IsInScope(g.Nodes[repoIDs[1]], scopeNode)
    THEN <<g.Nodes[repoIDs[1]].Name>> \o NamesInScope(g, Tail(repoIDs), scopeNode)
    ELSE NamesInScope(g, Tail(repoIDs), scopeNode)

\* Variant of calculateInheritedRepos without the call of sort.Strings
calculateInheritedReposUnsorted(scopeNode, g) ==
    NamesInScope(g, GetNodesByType(g, NodeTypeRepository), scopeNode)

calculateInheritedRepos(scopeNode, g) ==
    SortStrings(NamesInScope(g, GetNodesByType(g, NodeTypeRepository), scopeNode))

GroupNodeID(configNode, groupName) ==
    <<"group", "_">> \o ReplaceAll(GetPathString(configNode), "/", "_") \o <<"_">> \o groupName

createGroupNode(groupName, repos, configNode, g) ==
    LET located == [NewGraphNode(GroupNodeID(configNode, groupName), NodeTypeGroup, groupName)
                        EXCEPT !.Path = DefinedPath(configNode),
                               !.FullPath = DefinedFullPath(configNode),
                               !.Level = Len(DefinedPath(configNode))]
        isEmpty == Len(repos) = 0
        groupDef == [Name |-> groupName,
                     ExplicitRepos |-> repos,
                     InheritedRepos |-> IF isEmpty THEN calculateInheritedRepos(located, g)
                                        ELSE <<>>,
                     IsEmpty |-> isEmpty]
    IN [MarkAsDerived(located, configNode.ID)
            EXCEPT !.Group = Some(groupDef),
                   !.Tags = IF isEmpty THEN <<"inherited", "derived">>
                            ELSE <<"explicit", "derived">>]

\* Variant of addIncludes that records the first member only
addIncludesFirst(g, groupID, repoNames) ==
    IF Len(repoNames) = 0 \/ ~HasKey(g.AllRepositories, repoNames[1])
    THEN [graph |-> g, err |-> NoError]
    ELSE AddRelationship(g, NewRelationship(IncludesID(groupID, g.AllRepositories[repoNames[1]]),
                                            groupID, g.AllRepositories[repoNames[1]],
                                            RelationIncludes))

RECURSIVE addIncludes(_, _, _)
addIncludes(g, groupID, repoNames) ==
    IF Len(repoNames) = 0 THEN [graph |-> g, err |-> NoError]
    ELSE IF ~HasKey(g.AllRepositories, repoNames[1])
    THEN addIncludes(g, groupID, Tail(repoNames))
    ELSE LET repoID == g.AllRepositories[repoNames[1]]
             included == AddRelationship(g, NewRelationship(IncludesID(groupID, repoID),
                                                            groupID, repoID, RelationIncludes))
         IN IF included.err # NoError THEN included
            ELSE addIncludes(included.graph, groupID, Tail(repoNames))

\* groupNames is the order in which the range loop visits configNode.Config.Groups
RECURSIVE addGroups(_, _, _)
addGroups(g, configID, groupNames) ==
    IF Len(groupNames) = 0 THEN [graph |-> g, err |-> NoError]
    ELSE LET configNode == g.Nodes[configID]
             groupNode == createGroupNode(groupNames[1],
                                          configNode.Config[1].Groups[groupNames[1]],
                                          configNode, g)
             added == AddNode(g, groupNode)
             defined == AddRelationship(added.graph,
                            NewRelationship(DefinesID(configID, groupNode.ID),
                                            configID, groupNode.ID, RelationDefines))
             included == addIncludes(defined.graph, groupNode.ID,
                             groupNode.Group[1].ExplicitRepos \o groupNode.Group[1].InheritedRepos)
         IN IF added.err # NoError THEN added
            ELSE IF defined.err # NoError THEN defined
            ELSE IF included.err # NoError THEN included
            ELSE addGroups(included.graph, configID, Tail(groupNames))

RECURSIVE processGroupsOf(_, _, _)
processGroupsOf(g, configIDs, groupOrder) ==
    IF Len(configIDs) = 0 THEN [graph |-> g, err |-> NoError]
    ELSE LET done == IF Len(g.Nodes[configIDs[1]].Config) > 0
                     THEN addGroups(g, configIDs[1], groupOrder[configIDs[1]])
                     ELSE [graph |-> g, err |-> NoError]
         IN IF done.err # NoError THEN done
            ELSE processGroupsOf(done.graph, Tail(configIDs), groupOrder)

\* groupOrder[c] is the order in which the groups of config node c are visited
processGroups(g, groupOrder) ==
    processGroupsOf(g, GetNodesByType(g, NodeTypeConfig), groupOrder)

GroupOrders(g) ==
    ChoiceFunctions([c \in Range(GetNodesByType(g, NodeTypeConfig)) |->
                        IterationOrders(DOMAIN g.Nodes[c].Config[1].Groups)])

(***************************************************************************)
(* Tags and labels                                                         *)
(***************************************************************************)
\* fmt's %v of a tag value
FormatValue(value) == value.text

TagNodeID(tagName, tagValue) == <<"tag", "_">> \o tagName \o <<"_">> \o FormatValue(tagValue)
LabelNodeID(labelName) == <<"label", "_">> \o labelName

\* created is the table of the tag nodes made so far; the result is the node
createOrGetTagNode(tagName, tagValue, scope, sourceID, created) ==
    IF HasKey(created, TagNodeID(tagName, tagValue))
    THEN created[TagNodeID(tagName, tagValue)]
    ELSE [MarkAsExplicit(NewGraphNode(TagNodeID(tagName, tagValue), NodeTypeTag, tagName),
                         sourceID)
             EXCEPT !.Tag = Some([Name |-> tagName, Value |-> tagValue, Scope |-> scope,
                                  SourceType |-> "explicit"])]

createOrGetLabelNode(labelName, scope, sourceID, created) ==
    IF HasKey(created, LabelNodeID(labelName))
    THEN created[LabelNodeID(labelName)]
    ELSE [MarkAsExplicit(NewGraphNode(LabelNodeID(labelName), NodeTypeLabel, labelName),
                         sourceID)
             EXCEPT !.Label = Some([Name |-> labelName, Scope |-> scope,
                                    SourceType |-> "explicit"])]

createTagRelationship(g, fromID, tagID) ==
    AddRelationship(g, NewRelationship(TaggedID(fromID, tagID), fromID, tagID,
                                       RelationTaggedWith))

createLabelRelationship(g, fromID, labelID) ==
    AddRelationship(g, NewRelationship(LabeledID(fromID, labelID), fromID, labelID,
                                       RelationLabeledWith))

\* The tag loop of one carrier (a config or a repository node).  st carries the
\* graph, the two tables of created nodes and the error; the error of the
\* relationship is dropped, as the caller drops it.
RECURSIVE addTags(_, _, _, _, _)
addTags(st, carrierID, tags, tagNames, scope) ==
    IF Len(tagNames) = 0 THEN st
    ELSE LET tagNode == createOrGetTagNode(tagNames[1], tags[tagNames[1]], scope,
                                           carrierID, st.createdTags)
             created == MapPut(st.createdTags, tagNode.ID, tagNode)
             added == IF Len(GetNode(st.graph, tagNode.ID)) = 0
                      THEN AddNode(st.graph, tagNode)
                      ELSE [graph |-> st.graph, err |-> NoError]
         IN IF added.err # NoError
            THEN [st EXCEPT !.graph = added.graph, !.createdTags = created, !.err = added.err]
            ELSE addTags([st EXCEPT !.graph = createTagRelationship(added.graph, carrierID,
                                                                     tagNode.ID).graph,
                                    !.createdTags = created],
                         carrierID, tags, Tail(tagNames), scope)

RECURSIVE addLabels(_, _, _, _)
addLabels(st, carrierID, labels, scope) ==
    IF Len(labels) = 0 THEN st
    ELSE LET labelNode == createOrGetLabelNode(labels[1], scope, carrierID, st.createdLabels)
             created == MapPut(st.createdLabels, labelNode.ID, labelNode)
             added == IF Len(GetNode(st.graph, labelNode.ID)) = 0
                      THEN AddNode(st.graph, labelNode)
                      ELSE [graph |-> st.graph, err |-> NoError]
         IN IF added.err # NoError
            THEN [st EXCEPT !.graph = added.graph, !.createdLabels = created,
                            !.err = added.err]
            ELSE addLabels([st EXCEPT !.graph = createLabelRelationship(added.graph, carrierID,
                                                                         labelNode.ID).graph,
                                      !.createdLabels = created],
                           carrierID, Tail(labels), scope)

\* the tags map and the labels list a config or repository node carries
CarriedTags(node) ==
    IF node.Type = NodeTypeConfig THEN node.Config[1].Global.Tags
    ELSE node.Repository[1].Tags

CarriedLabels(node) ==
    IF node.Type = NodeTypeConfig THEN node.Config[1].Global.Labels
    ELSE node.Repository[1].Labels

RECURSIVE processCarriers(_, _, _, _)
processCarriers(st, carrierIDs, scope, tagOrder) ==
    IF Len(carrierIDs) = 0 \/ st.err # NoError THEN st
    ELSE LET node == st.graph.Nodes[carrierIDs[1]]
             tagged == addTags(st, node.ID, CarriedTags(node), tagOrder[node.ID], scope)
             labeled == IF tagged.err # NoError THEN tagged
                        ELSE addLabels(tagged, node.ID, CarriedLabels(node), scope)
         IN processCarriers(labeled, Tail(carrierIDs), scope, tagOrder)

\* tagOrder[n] is the order in which the tags map of node n is visited
processTagsAndLabels(g, tagOrder) ==
    LET st0 == [graph |-> g, createdTags |-> EmptyMap, createdLabels |-> EmptyMap,
                err |-> NoError]
        st1 == processCarriers(st0, GetNodesByType(g, NodeTypeConfig), "global", tagOrder)
        st2 == processCarriers(st1, GetNodesByType(st1.graph, NodeTypeRepository),
                               "repository", tagOrder)
    IN [graph |-> st2.graph, err |-> st2.err]

TagOrders(g) ==
    ChoiceFunctions([n \in Range(GetNodesByType(g, NodeTypeConfig))
                           \cup Range(GetNodesByType(g, NodeTypeRepository)) |->
                        IterationOrders(DOMAIN CarriedTags(g.Nodes[n]))])

(***************************************************************************)
(* Queries                                                                 *)
(***************************************************************************)
GetNodesByPath(g, path) == IF HasKey(g.NodesByPath, path) THEN Some(g.NodesByPath[path]) ELSE Nil

\* the nodes of g.Nodes that pass a test, as a range loop over the map in order ord
\* collects them
RECURSIVE Collect(_, _, _)
Collect(g, ord, flag) ==
    IF Len(ord) = 0 THEN <<>>
    ELSE IF g.Nodes[ord[1]][flag] THEN <<ord[1]>> \o Collect(g, Tail(ord), flag)
    ELSE Collect(g, Tail(ord), flag)

GetExplicitNodes(g, ord) == Collect(g, ord, "IsExplicit")

GetDerivedNodes(g, ord) == Collect(g, ord, "IsDerived")

\* the last element of strings.Split(str, "/")
RECURSIVE LastPart(_)
LastPart(str) ==
    IF \E i \in 1..Len(str) : str[i] = "/"
    THEN LastPart(SubSeq(str, 1 + (CHOOSE i \in 1..Len(str) :
                                      str[i] = "/" /\ \A j \in 1..(i - 1) : str[j] # "/"),
                         Len(str)))
    ELSE str

\* the first occurrence of every element, in order
RECURSIVE Unique(_, _)
Unique(strs, seen) ==
    IF Len(strs) = 0 THEN <<>>
    ELSE IF strs[1] \in seen THEN Unique(Tail(strs), seen)
    ELSE <<strs[1]>> \o Unique(Tail(strs), seen \cup {strs[1]})

displayName(g, groupNode) ==
    LET count == Cardinality({i \in 1..Len(GetNodesByType(g, NodeTypeGroup)) :
                                 g.Nodes[GetNodesByType(g, NodeTypeGroup)[i]].Name
                                     = groupNode.Name})
    IN IF count > 1 /\ GetPathString(groupNode) # RootStr
                    /\ LastPart(GetPathString(groupNode)) # RootStr
       THEN LastPart(GetPathString(groupNode)) \o <<"-">> \o groupNode.Name
       ELSE groupNode.Name

RECURSIVE displayGroups(_, _, _)
displayGroups(g, groupIDs, shown) ==
    IF Len(groupIDs) = 0 THEN shown
    ELSE LET groupNode == g.Nodes[groupIDs[1]]
             uniqueRepos == SortStrings(Unique(groupNode.Group[1].ExplicitRepos
                                                   \o groupNode.Group[1].InheritedRepos, {}))
         IN IF Len(groupNode.Group) = 0 \/ Len(uniqueRepos) = 0
            THEN displayGroups(g, Tail(groupIDs), shown)
            ELSE displayGroups(g, Tail(groupIDs),
                               MapPut(shown, displayName(g, groupNode), uniqueRepos))

GetGroupsForDisplay(g) == displayGroups(g, GetNodesByType(g, NodeTypeGroup), EmptyMap)

DefaultWorkers == 8
DefaultTimeout == 300

\* sort.Slice by Name
RECURSIVE InsertByName(_, _)
InsertByName(sorted, repo) ==
    IF Len(sorted) = 0 THEN <<repo>>
    ELSE IF StrLess(repo.Name, sorted[1].Name) THEN <<repo>> \o sorted
    ELSE <<sorted[1]>> \o InsertByName(Tail(sorted), repo)

RECURSIVE SortByName(_)
SortByName(repos) ==
    IF Len(repos) = 0 THEN <<>>
    ELSE InsertByName(SortByName(Tail(repos)), repos[1])

RECURSIVE repositoriesOf(_, _)
repositoriesOf(g, repoIDs) ==
    IF Len(repoIDs) = 0 THEN <<>>
    ELSE g.Nodes[repoIDs[1]].Repository \o repositoriesOf(g, Tail(repoIDs))

\* environment entries of a config node written over those merged so far
MergeEnvironment(merged, environment) ==
    [key \in (DOMAIN merged) \cup (DOMAIN environment) |->
        IF key \in DOMAIN environment THEN environment[key] ELSE merged[key]]

\* the body of the loop over config nodes: the settings of one node merged into
\* global, whose Environment is nil or a map
mergeGlobal(global, configNode) ==
    IF Len(configNode.Config) = 0 \/ configNode.Level # 1 THEN global
    ELSE LET set == configNode.Config[1].Global
         IN [BasePath |-> IF set.BasePath # EmptyStr THEN set.BasePath ELSE global.BasePath,
             Workers |-> IF set.Workers > 0 THEN set.Workers ELSE global.Workers,
             Timeout |-> IF set.Timeout > 0 THEN set.Timeout ELSE global.Timeout,
             Environment |-> Some(MergeEnvironment(IF Len(global.Environment) = 0
                                                   THEN EmptyMap
                                                   ELSE global.Environment[1],
                                                   set.Environment))]

RECURSIVE mergeGlobals(_, _, _)
mergeGlobals(g, configIDs, global) ==
    IF Len(configIDs) = 0 THEN global
    ELSE mergeGlobals(g, Tail(configIDs), mergeGlobal(global, g.Nodes[configIDs[1]]))

\* Templates are left out; Version is not assigned and keeps the zero value
GetMergedConfig(g) ==
    [Version |-> EmptyStr,
     Global |-> mergeGlobals(g, GetNodesByType(g, NodeTypeConfig),
                             [BasePath |-> EmptyStr, Workers |-> DefaultWorkers,
                              Timeout |-> DefaultTimeout, Environment |-> Nil]),
     Repositories |-> SortByName(repositoriesOf(g, GetNodesByType(g, NodeTypeRepository))),
     Groups |-> GetGroupsForDisplay(g)]

(***************************************************************************)
(* Configuration loader (internal/config)                                  *)
(***************************************************************************)
\* time.Second, in nanoseconds
Second == 1000000000

ErrNilConfig == "config cannot be nil"
ErrVersionRequired == "config version is required"
ErrWorkersTooFew == "global.workers must be at least 1"
ErrWorkersTooMany == "global.workers cannot exceed 100"
ErrTimeoutTooShort == "global.timeout must be at least 1 second"
ErrNoRepository == "at least one repository must be configured"
ErrNameRequired == "name is required"
ErrDuplicateName == "duplicate name"
ErrPathRequired == "path is required"
ErrURLRequired == "URL is required"
ErrRelativePath == "relative path requires global.basePath to be set"
ErrBuildFailed == "failed to build repository graph"

\* filepath.IsAbs
IsAbs(path) == Len(path) > 0 /\ path[1] = "/"

\* the loop of ValidateConfig over the repositories; repoNames are the names seen
RECURSIVE validateRepositories(_, _, _)
validateRepositories(config, repos, repoNames) ==
    IF Len(repos) = 0 THEN NoError
    ELSE IF repos[1].Name = EmptyStr THEN ErrNameRequired
    ELSE IF repos[1].Name \in repoNames THEN ErrDuplicateName
    ELSE IF repos[1].Path = EmptyStr THEN ErrPathRequired
    ELSE IF repos[1].URL = EmptyStr THEN ErrURLRequired
    ELSE IF ~IsAbs(repos[1].Path) /\ config.Global.BasePath = EmptyStr THEN ErrRelativePath
    ELSE validateRepositories(config, Tail(repos), repoNames \cup {repos[1].Name})

\* config is the pointer: Nil or Some(record)
ValidateConfig(config) ==
    IF Len(config) = 0 THEN ErrNilConfig
    ELSE IF config[1].Version = EmptyStr THEN ErrVersionRequired
    ELSE IF config[1].Global.Workers < 1 THEN ErrWorkersTooFew
    ELSE IF config[1].Global.Workers > 100 THEN ErrWorkersTooMany
    ELSE IF config[1].Global.Timeout < Second THEN ErrTimeoutTooShort
    ELSE IF Len(config[1].Repositories) = 0 THEN ErrNoRepository
    ELSE validateRepositories(config[1], config[1].Repositories, {})

(***************************************************************************)
(* The configuration records a file may hold.  A build reads one of three  *)
(* families of hierarchies: deep hierarchies of files that define groups,  *)
(* shallow ones that define repositories and groups, and shallow ones that *)
(* carry tags and labels.  budget names the family and counts the include  *)
(* entries and the items (repository records, group definitions, tags and  *)
(* labels) still to be read.                                               *)
(***************************************************************************)
MaxIncludes == 2
HierarchyIncludes == 3
ScopeIncludes == 2
TagIncludes == 1
HierarchyItems == 2
ScopeItems == 4
TagItems == 5

Api == <<"api">>
Db == <<"db">>
Web == <<"web">>
GroupG == <<"g">>
Env == <<"env">>
Prod == [kind |-> "string", text |-> <<"prod">>]
Dev == [kind |-> "string", text |-> <<"dev">>]
LabelL == <<"l">>
\* two tags whose names and values differ and whose "%s_%v" renderings agree
Team == <<"team">>
TeamA == <<"team", "_", "a">>
ValueAB == [kind |-> "string", text |-> <<"a", "_", "b">>]
ValueB == [kind |-> "string", text |-> <<"b">>]

NoTags == EmptyMap
Tagged(name, value) == MapPut(EmptyMap, name, value)

\* a repository record with a name, an absolute path and a URL
Repository(name, tags, labels) ==
    [Name |-> name, Path |-> <<"/", "src", "/">> \o name,
     URL |-> <<"https://", "host", "/">> \o name, Tags |-> tags, Labels |-> labels]
Plain(name) == Repository(name, NoTags, <<>>)

NoGroups == EmptyMap
Group(name, repos) == MapPut(EmptyMap, name, repos)

\* every file carries the version "1.0"
Version10 == <<"1.0">>

Content(global, repos, groups) ==
    [Version |-> Version10, Global |-> global, Repositories |-> repos, Groups |-> groups]
\* a global section that sets no base path, worker count, timeout or environment
Global(tags, labels) ==
    [BasePath |-> EmptyStr, Workers |-> 0, Timeout |-> 0, Environment |-> EmptyMap,
     Tags |-> tags, Labels |-> labels]

NoGlobal == Global(NoTags, <<>>)

HierarchyContents ==
    {Content(NoGlobal, <<>>, groups) : groups \in {NoGroups, Group(GroupG, <<>>)}}

ScopeContents ==
    {Content(NoGlobal, repos, groups) :
        repos \in {<<>>, <<Plain(Db)>>, <<Plain(Web), Plain(Api)>>, <<Plain(Db), Plain(Db)>>},
        groups \in {NoGroups, Group(GroupG, <<>>), Group(GroupG, <<Api>>)}}

TaggedRepositories ==
    {Repository(Api, Tagged(Env, Prod), <<LabelL>>),
     Repository(Db, Tagged(Env, Prod), <<>>),
     Repository(Db, Tagged(Env, Dev), <<LabelL, LabelL>>),
     Repository(Web, Tagged(Team, ValueAB), <<>>)}

TagContents ==
    {Content(Global(tags, labels), repos, NoGroups) :
        tags \in {NoTags, Tagged(Env, Prod), Tagged(TeamA, ValueB)},
        labels \in {<<>>, <<LabelL>>},
        repos \in SeqsUpTo(TaggedRepositories, 2)}

\* files that set the worker count and the timeout and define a repository
SettledGlobals ==
    {[BasePath |-> EmptyStr, Workers |-> 1, Timeout |-> Second, Environment |-> EmptyMap,
      Tags |-> NoTags, Labels |-> <<>>],
     [BasePath |-> <<"/", "base">>, Workers |-> 100, Timeout |-> 2 * Second,
      Environment |-> EmptyMap, Tags |-> NoTags, Labels |-> <<>>]}

SettingsContents ==
    {Content(global, repos, NoGroups) :
        global \in SettledGlobals,
        repos \in {<<Plain(Api)>>, <<Plain(Db)>>, <<Plain(Web), Plain(Api)>>}}

TagCount(tags) == Cardinality(DOMAIN tags)

RECURSIVE RepositoryItems(_)
RepositoryItems(repos) ==
    IF Len(repos) = 0 THEN 0
    ELSE 1 + TagCount(repos[1].Tags) + Len(repos[1].Labels) + RepositoryItems(Tail(repos))

\* the repository records, group definitions, tags and labels of a record
Items(c) ==
    RepositoryItems(c.Repositories) + Cardinality(DOMAIN c.Groups)
        + TagCount(c.Global.Tags) + Len(c.Global.Labels)

Profiles ==
    {[family |-> "hierarchy", includes |-> HierarchyIncludes, items |-> HierarchyItems],
     [family |-> "scope", includes |-> ScopeIncludes, items |-> ScopeItems],
     [family |-> "tags", includes |-> TagIncludes, items |-> TagItems]}

SettingsIncludes == 2
SettingsItems == 4

\* the hierarchies LoadConfig is given
LoadProfiles ==
    {[family |-> "settings", includes |-> SettingsIncludes, items |-> SettingsItems]}

FamilyContents(family) ==
    IF family = "hierarchy" THEN HierarchyContents
    ELSE IF family = "scope" THEN ScopeContents
    ELSE IF family = "settings" THEN SettingsContents
    ELSE TagContents

\* the paths the include entries of a family may name
FamilyTargets(family) ==
    IF family = "hierarchy" THEN IncludeTargets ELSE {PathMain, PathA, PathAB}

ConfigRecords(b) ==
    {[Version |-> c.Version, Includes |-> includes, Global |-> c.Global,
      Repositories |-> c.Repositories, Groups |-> c.Groups] :
        includes \in SeqsUpTo(FamilyTargets(b.family), Min(MaxIncludes, b.includes)),
        c \in {x \in FamilyContents(b.family) : Items(x) <= b.items}}

Spend(b, config) ==
    [b EXCEPT !.includes = @ - Len(config.Includes), !.items = @ - Items(config)]

(***************************************************************************)
(* State                                                                   *)
(***************************************************************************)
VARIABLES
    pc,         \* the step BuildGraph is at
    rootPath,   \* the argument of BuildGraph
    fs,         \* the configuration files read so far: path -> record
    budget,     \* the family of the hierarchy and the include entries still to be read
    graph,      \* the graph under construction
    visited,    \* GraphBuilder.visited: the paths mapped to true
    stack,      \* the calls of buildConfigHierarchy in progress, outermost first
    result,     \* what BuildGraph returned: graph (nil or the graph) and err
    objects,    \* the node objects that are not in graph.Nodes: ID -> node
    last,       \* the last call made on the graph by a client of the engine
    calls,      \* the number of calls clients have made
    workerCount, \* Pool.workerCount
    started,    \* Pool.started
    workers,    \* Pool.workers: id, done channel and WaitGroup counter of each worker
    mu,         \* Pool.mu is held
    caller,     \* the goroutine that calls Execute and Shutdown on the pool
    waiter,     \* the goroutines Shutdown starts to wait for the workers
    ctxDone,    \* the context given to Execute is cancelled
    operations, \* the operations given to Execute
    jobChan,    \* the channel of jobs of the Execute in progress
    results,    \* the channel Execute returned
    wg,         \* the counter of the WaitGroup of the Execute in progress
    dispatcher, \* the goroutine Execute starts
    sender,     \* the goroutine that sends the operations to the workers
    worker,     \* the goroutines running Pool.worker, in the order they are started
    received    \* the results read from the channel Execute returned

\* the variables of the executor pool
poolVars == <<workerCount, started, workers, mu, caller, waiter, ctxDone, operations, jobChan,
              results, wg, dispatcher, sender, worker, received>>

\* the variables of the graph builder, of the engine and of their clients
graphVars == <<pc, rootPath, fs, budget, graph, visited, stack, result, objects, last, calls>>

vars == <<pc, rootPath, fs, budget, graph, visited, stack, result, objects, last, calls,
          poolVars>>

\* a channel made with a capacity
MakeChan(capacity) == [buf |-> <<>>, cap |-> capacity, closed |-> FALSE]

\* the goroutines of a pool on which nothing has been called
NotRunning == [pc |-> "none", i |-> 0]

\* NewPool(count)
NewPool(count) ==
    /\ workerCount = count
    /\ started = FALSE
    /\ workers = <<>>
    /\ mu = FALSE
    /\ caller = [pc |-> "idle", ret |-> "none", ctxDone |-> FALSE, executes |-> 0,
                 shutdowns |-> 0]
    /\ waiter = [pc |-> "none", blocked |-> 0]
    /\ ctxDone = FALSE
    /\ operations = <<>>
    /\ jobChan = MakeChan(0)
    /\ results = MakeChan(0)
    /\ wg = 0
    /\ dispatcher = NotRunning
    /\ sender = NotRunning
    /\ worker = <<>>
    /\ received = <<>>

\* the variables of the clients that call the engine directly
clientVars == <<objects, last, calls>>

NoCall == [op |-> "none", arg |-> <<>>, err |-> NoError, ret |-> Nil, onlyMutators |-> TRUE]

\* the caller of the outermost buildConfigHierarchy is BuildGraph itself
Frame(path, nodeID, todo) == [path |-> path, node |-> nodeID, todo |-> todo]

Top == stack[Len(stack)]

\* the paths of the buildConfigHierarchy calls in progress
StackPaths == {stack[i].path[1] : i \in {j \in 1..Len(stack) : Len(stack[j].path) > 0}}

\* the error BuildGraph returns: the cause, wrapped with the message of the step
NilError == [step |-> "none", cause |-> NoError]
Wrap(step, cause) == [step |-> step, cause |-> cause]

\* Variant of Outcome that hands the graph back together with the error
OutcomeWithGraph(err) == [graph |-> Some("graph"), err |-> err]

\* the pair BuildGraph returns when it ends with error err
Outcome(err) ==
    [graph |-> IF err = NilError THEN Some("graph") ELSE Nil, err |-> err]

\* Variant of IsMarked that never finds a path marked
IsMarkedNever(marked, absPath) == FALSE

\* the test b.visited[absPath] of buildConfigHierarchy
IsMarked(marked, absPath) == absPath \in marked

Init ==
    /\ pc = "start"
    /\ NewPool(1)
    /\ rootPath \in RootPaths
    /\ fs = EmptyMap
    /\ budget \in Profiles
    /\ graph = NewRepositoryGraph
    /\ visited = {}
    /\ stack = <<>>
    /\ result = [graph |-> Nil, err |-> NilError]
    /\ objects = EmptyMap
    /\ last = NoCall
    /\ calls = 0

\* Variant of Return without the deferred resets of the calls in progress
ReturnStillMarked(g, err, unmarked) ==
    /\ pc' = "done"
    /\ graph' = g
    /\ visited' = visited \cup unmarked
    /\ stack' = <<>>
    /\ result' = Outcome(err)

\* BuildGraph returns; every deferred reset of the calls in progress has run
Return(g, err, unmarked) ==
    /\ pc' = "done"
    /\ graph' = g
    /\ visited' = visited \ unmarked
    /\ stack' = <<>>
    /\ result' = Outcome(err)

\* BuildGraph up to the call of buildConfigHierarchy
CreateRoot ==
    /\ pc = "start"
    /\ LET rootNode == [NewGraphNode(RootID, NodeTypeRoot, RootStr)
                            EXCEPT !.Level = 0, !.Path = <<>>, !.FullPath = RootStr]
           added == AddNode(graph, rootNode)
       IN IF added.err # NoError
          THEN Return(added.graph, Wrap("root", added.err), {})
          ELSE /\ graph' = [added.graph EXCEPT !.Root = Some(RootID)]
               /\ stack' = <<Frame(Nil, RootID, <<rootPath>>)>>
               /\ pc' = "hierarchy"
               /\ UNCHANGED <<visited, result>>
    /\ UNCHANGED <<rootPath, poolVars, fs, budget, clientVars>>

\* what loadConfig may return for a path: nil (with an error) or the record
LoadChoices(absPath) ==
    IF absPath \notin Files THEN {Nil}
    ELSE IF HasKey(fs, absPath) THEN {Some(fs[absPath])}
    ELSE {Some(c) : c \in ConfigRecords(budget)}

\* a call buildConfigHierarchy(configPath, parentNode, graph), up to its include loop
EnterConfig ==
    /\ pc = "hierarchy"
    /\ Len(Top.todo) > 0
    /\ LET absPath == Top.todo[1]
           parentID == Top.node
       IN IF IsMarked(visited, absPath)
          THEN /\ Return(graph, Wrap("hierarchy", ErrCircularDependency), StackPaths)
               /\ UNCHANGED <<fs, budget>>
          ELSE \E loaded \in LoadChoices(absPath) :
                 LET expanded == expandConfig(graph, absPath, loaded, parentID)
                 IN /\ IF Len(loaded) > 0 /\ ~HasKey(fs, absPath)
                       THEN /\ fs' = MapPut(fs, absPath, loaded[1])
                            /\ budget' = Spend(budget, loaded[1])
                       ELSE UNCHANGED <<fs, budget>>
                    /\ IF expanded.err # NoError
                       THEN Return(expanded.graph, Wrap("hierarchy", expanded.err),
                                   StackPaths \cup {absPath})
                       ELSE /\ graph' = expanded.graph
                            /\ visited' = visited \cup {absPath}
                            /\ stack' = Append([stack EXCEPT ![Len(stack)].todo = Tail(@)],
                                               Frame(Some(absPath), ConfigNodeID(absPath),
                                                     loaded[1].Includes))
                            /\ UNCHANGED <<pc, result>>
    /\ UNCHANGED <<rootPath, poolVars, clientVars>>

\* a call of buildConfigHierarchy returns nil: its deferred reset runs
LeaveConfig ==
    /\ pc = "hierarchy"
    /\ Len(stack) > 1
    /\ Len(Top.todo) = 0
    /\ visited' = visited \ {Top.path[1]}
    /\ stack' = SubSeq(stack, 1, Len(stack) - 1)
    /\ UNCHANGED <<pc, rootPath, poolVars, fs, budget, graph, result, clientVars>>

ProcessRepositories ==
    /\ pc = "hierarchy"
    /\ Len(stack) = 1
    /\ Len(Top.todo) = 0
    /\ \E shared \in BOOLEAN :
         LET done == processRepositories(graph, shared)
         IN IF done.err # NoError
            THEN Return(done.graph, Wrap("repositories", done.err), {})
            ELSE /\ graph' = done.graph
                 /\ pc' = "groups"
                 /\ stack' = <<>>
                 /\ UNCHANGED <<visited, result>>
    /\ UNCHANGED <<rootPath, poolVars, fs, budget, clientVars>>

ProcessGroups ==
    /\ pc = "groups"
    /\ \E groupOrder \in GroupOrders(graph) :
         LET done == processGroups(graph, groupOrder)
         IN IF done.err # NoError
            THEN Return(done.graph, Wrap("groups", done.err), {})
            ELSE /\ graph' = done.graph
                 /\ pc' = "tags"
                 /\ UNCHANGED <<visited, stack, result>>
    /\ UNCHANGED <<rootPath, poolVars, fs, budget, clientVars>>

ProcessTagsAndLabels ==
    /\ pc = "tags"
    /\ \E tagOrder \in TagOrders(graph) :
         LET done == processTagsAndLabels(graph, tagOrder)
         IN IF done.err # NoError
            THEN Return(done.graph, Wrap("tags", done.err), {})
            ELSE /\ graph' = done.graph
                 /\ pc' = "finalize"
                 /\ UNCHANGED <<visited, stack, result>>
    /\ UNCHANGED <<rootPath, poolVars, fs, budget, clientVars>>

\* BuildIndexes, ValidateGraph and the return of BuildGraph
Finalize ==
    /\ pc = "finalize"
    /\ \E nodeOrder \in ScanOrders(DOMAIN graph.Nodes),
          relOrder \in ScanOrders(DOMAIN graph.Relationships) :
         LET indexed == BuildIndexes(graph, nodeOrder, relOrder)
             valid == ValidateGraph(indexed, Reverse(nodeOrder))
         IN Return(indexed,
                   IF valid # NoError THEN Wrap("validation", valid) ELSE NilError,
                   {})
    /\ UNCHANGED <<rootPath, poolVars, fs, budget, clientVars>>

Next ==
    \/ CreateRoot
    \/ EnterConfig
    \/ LeaveConfig
    \/ ProcessRepositories
    \/ ProcessGroups
    \/ ProcessTagsAndLabels
    \/ Finalize

Spec == Init /\ [][Next]_vars

(***************************************************************************)
(* Clients of the engine.  A client holds a few node objects and           *)
(* relationships and calls the engine on a graph that starts empty; every  *)
(* node object is in graph.Nodes or in objects, one object per ID.         *)
(***************************************************************************)
MaxCalls == 5

RepoA == "repo_a"
RepoB == "repo_b"
GroupID == "group_g"
TagT == "t"

\* two repository nodes of one name and a group node, as NewGraphNode makes them
ClientNodes ==
    [id \in {RepoA, RepoB, GroupID} |->
        IF id = RepoA THEN [NewGraphNode(RepoA, NodeTypeRepository, Api) EXCEPT !.Tags = <<TagT>>]
        ELSE IF id = RepoB THEN NewGraphNode(RepoB, NodeTypeRepository, Api)
        ELSE NewGraphNode(GroupID, NodeTypeGroup, GroupG)]

ClientRelationships ==
    [id \in {"r1", "r2", "r3"} |->
        IF id = "r1" THEN NewRelationship("r1", RepoA, RepoB, RelationParentChild)
        ELSE IF id = "r2" THEN NewRelationship("r2", RepoB, RepoA, RelationParentChild)
        ELSE NewRelationship("r3", GroupID, RepoA, RelationIncludes)]

Mutators == {"AddNode", "AddRelationship", "RemoveNode", "RemoveRelationship"}

\* the record of a call (ret is the value returned, when there is one besides the
\* error): onlyMutators tells that every call so far was a successful
\* call of one of Mutators
Called(op, arg, err) ==
    [op |-> op, arg |-> arg, err |-> err, ret |-> Nil,
     onlyMutators |-> last.onlyMutators /\ op \in Mutators /\ err = NoError]

ClientInit ==
    /\ pc = "client"
    /\ NewPool(1)
    /\ rootPath = PathMain
    /\ fs = EmptyMap
    /\ budget = 0
    /\ graph = NewRepositoryGraph
    /\ visited = {}
    /\ stack = <<>>
    /\ result = [graph |-> Nil, err |-> NilError]
    /\ objects = ClientNodes
    /\ last = NoCall
    /\ calls = 0

ClientAddNode ==
    /\ pc = "client" /\ calls < MaxCalls
    /\ \E id \in DOMAIN ClientNodes :
           LET node == IF HasKey(objects, id) THEN objects[id] ELSE graph.Nodes[id]
               r == AddNode(graph, node)
           IN /\ graph' = r.graph
              /\ objects' = IF r.err = NoError THEN MapDelete(objects, id) ELSE objects
              /\ last' = Called("AddNode", id, r.err)
    /\ calls' = calls + 1
    /\ UNCHANGED <<pc, rootPath, poolVars, fs, budget, visited, stack, result>>

ClientAddRelationship ==
    /\ pc = "client" /\ calls < MaxCalls
    /\ \E id \in DOMAIN ClientRelationships :
           LET r == AddRelationship(graph, ClientRelationships[id])
           IN /\ graph' = r.graph
              /\ last' = Called("AddRelationship", id, r.err)
    /\ calls' = calls + 1
    /\ UNCHANGED <<pc, rootPath, poolVars, fs, budget, visited, stack, result, objects>>

ClientRemoveNode ==
    /\ pc = "client" /\ calls < MaxCalls
    /\ \E id \in DOMAIN ClientNodes :
           LET r == RemoveNode(graph, objects, id)
           IN /\ graph' = r.graph
              /\ objects' = r.others
              /\ last' = Called("RemoveNode", id, r.err)
    /\ calls' = calls + 1
    /\ UNCHANGED <<pc, rootPath, poolVars, fs, budget, visited, stack, result>>

ClientRemoveRelationship ==
    /\ pc = "client" /\ calls < MaxCalls
    /\ \E id \in DOMAIN ClientRelationships :
           LET r == RemoveRelationship(graph, id)
           IN /\ graph' = r.graph
              /\ last' = Called("RemoveRelationship", id, r.err)
    /\ calls' = calls + 1
    /\ UNCHANGED <<pc, rootPath, poolVars, fs, budget, visited, stack, result, objects>>

ClientAddChild ==
    /\ pc = "client" /\ calls < MaxCalls
    /\ \E parentID \in DOMAIN ClientNodes : \E childID \in DOMAIN ClientNodes \ {parentID} :
           LET r == AddChildAmong(graph, objects, parentID, childID)
           IN /\ graph' = r.graph
              /\ objects' = r.others
              /\ last' = Called("AddChild", <<parentID, childID>>, NoError)
    /\ calls' = calls + 1
    /\ UNCHANGED <<pc, rootPath, poolVars, fs, budget, visited, stack, result>>

ClientBuildIndexes ==
    /\ pc = "client" /\ calls < MaxCalls
    /\ \E nodeOrder \in ScanOrders(DOMAIN graph.Nodes) :
       \E relOrder \in ScanOrders(DOMAIN graph.Relationships) :
           graph' = BuildIndexes(graph, nodeOrder, relOrder)
    /\ last' = Called("BuildIndexes", <<>>, NoError)
    /\ calls' = calls + 1
    /\ UNCHANGED <<pc, rootPath, poolVars, fs, budget, visited, stack, result, objects>>

ClientValidateGraph ==
    /\ pc = "client" /\ calls < MaxCalls
    /\ \E nodeOrder \in IterationOrders(DOMAIN graph.Nodes) :
           last' = Called("ValidateGraph", nodeOrder, ValidateGraphAmong(graph, objects, nodeOrder))
    /\ calls' = calls + 1
    /\ UNCHANGED <<pc, rootPath, poolVars, fs, budget, graph, visited, stack, result, objects>>

ClientNext ==
    \/ ClientAddNode
    \/ ClientAddRelationship
    \/ ClientRemoveNode
    \/ ClientRemoveRelationship
    \/ ClientAddChild
    \/ ClientBuildIndexes
    \/ ClientValidateGraph

ClientSpec == ClientInit /\ [][ClientNext]_vars

(***************************************************************************)
(* Merged view of a hierarchy assembled by hand: a client adds config      *)
(* nodes below the root node or below a config node, as                    *)
(* buildConfigHierarchy does, and asks for the merged configuration.       *)
(***************************************************************************)
MaxConfigs == 3

BaseP == <<"p">>
BaseQ == <<"q">>
Key == "k"

\* the global sections a config node may have: base path, workers, timeout, environment
Settings ==
    {[BasePath |-> EmptyStr, Workers |-> 0, Timeout |-> 0, Environment |-> EmptyMap,
      Tags |-> NoTags, Labels |-> <<>>],
     [BasePath |-> BaseP, Workers |-> 2, Timeout |-> 60, Environment |-> MapPut(EmptyMap, Key, "v"),
      Tags |-> NoTags, Labels |-> <<>>],
     [BasePath |-> BaseQ, Workers |-> 4, Timeout |-> 0, Environment |-> MapPut(EmptyMap, Key, "w"),
      Tags |-> NoTags, Labels |-> <<>>],
     [BasePath |-> EmptyStr, Workers |-> 0, Timeout |-> 30, Environment |-> EmptyMap,
      Tags |-> NoTags, Labels |-> <<>>]}

\* the decimal numeral of a small number
Numeral(n) == <<"0", "1", "2", "3", "4", "5", "6", "7", "8", "9">>[n + 1]

NumberedConfigID(n) == <<"config", "_", Numeral(n)>>

MergeInit ==
    /\ pc = "merge"
    /\ NewPool(1)
    /\ rootPath = PathMain
    /\ fs = EmptyMap
    /\ budget = 0
    /\ graph = AddNode([NewRepositoryGraph EXCEPT !.Root = Some(RootID)],
                       NewGraphNode(RootID, NodeTypeRoot, RootStr)).graph
    /\ visited = {}
    /\ stack = <<>>
    /\ result = [graph |-> Nil, err |-> NilError]
    /\ objects = EmptyMap
    /\ last = NoCall
    /\ calls = 0

\* AddNode of a new config node, then parent.AddChild(node)
AttachConfig ==
    /\ pc = "merge" /\ calls < MaxConfigs
    /\ \E global \in Settings : \E parentID \in DOMAIN graph.Nodes :
           LET id == NumberedConfigID(calls + 1)
               node == [NewGraphNode(id, NodeTypeConfig, <<"c", Numeral(calls + 1)>>) EXCEPT
                           !.Config = Some(Content(global, <<>>, NoGroups))]
           IN /\ graph' = AddChild(AddNode(graph, node).graph, parentID, id)
              /\ last' = Called("AddNode", id, NoError)
    /\ calls' = calls + 1
    /\ UNCHANGED <<pc, rootPath, poolVars, fs, budget, visited, stack, result, objects>>

QueryMergedConfig ==
    /\ pc = "merge"
    /\ last' = [Called("GetMergedConfig", <<>>, NoError) EXCEPT !.ret = Some(GetMergedConfig(graph))]
    /\ UNCHANGED <<pc, rootPath, poolVars, fs, budget, graph, visited, stack, result, objects, calls>>

MergeNext ==
    \/ AttachConfig
    \/ QueryMergedConfig

MergeSpec == MergeInit /\ [][MergeNext]_vars

(***************************************************************************)
(* Loader.LoadConfig: a build of a hierarchy whose files set the worker    *)
(* count and the timeout, then the merged configuration and its            *)
(* validation.                                                             *)
(***************************************************************************)
LoadInit ==
    /\ pc = "start"
    /\ NewPool(1)
    /\ rootPath \in RootPaths
    /\ fs = EmptyMap
    /\ budget \in LoadProfiles
    /\ graph = NewRepositoryGraph
    /\ visited = {}
    /\ stack = <<>>
    /\ result = [graph |-> Nil, err |-> NilError]
    /\ objects = EmptyMap
    /\ last = NoCall
    /\ calls = 0

\* LoadConfigWithGraph from the return of BuildGraph on
LoadConfig ==
    /\ pc = "done"
    /\ pc' = "loaded"
    /\ IF result.err # NilError
       THEN last' = Called("LoadConfig", rootPath, ErrBuildFailed)
       ELSE LET config == Some(GetMergedConfig(graph))
                err == ValidateConfig(config)
            IN last' = [Called("LoadConfig", rootPath, err) EXCEPT
                           !.ret = IF err # NoError THEN Nil ELSE config]
    /\ UNCHANGED <<rootPath, poolVars, fs, budget, graph, visited, stack, result, objects,
                   calls>>

LoadNext ==
    \/ Next
    \/ LoadConfig

LoadSpec == LoadInit /\ [][LoadNext]_vars

(***************************************************************************)
(* The executor pool (internal/executor).  One goroutine, the caller,      *)
(* calls Execute and Shutdown on a pool; Execute starts the dispatcher,    *)
(* which starts the workers and the sender; the caller reads the channel   *)
(* Execute returned.  A step is one channel operation, one WaitGroup       *)
(* operation or one call that holds Pool.mu throughout.  A panic ends the  *)
(* process: no goroutine takes a step after it.                            *)
(***************************************************************************)
MaxWorkers == 2
MaxOperations == 2
MaxExecutes == 2
MaxShutdowns == 3

OpClone == [Repository |-> Api, Command |-> "clone"]
OpPush == [Repository |-> Db, Command |-> "push"]
Operations == {OpClone, OpPush}

ErrCanceled == "context canceled"
ErrUnknownOperation == "unknown operation"

\* cancelled is ctx.Err() != nil
executeOperation(cancelled, op) ==
    IF cancelled
    THEN [Repository |-> op.Repository, Operation |-> op.Command, Success |-> FALSE,
          Error |-> ErrCanceled]
    ELSE IF op.Command \in {"clone", "update", "status"}
    THEN [Repository |-> op.Repository, Operation |-> op.Command, Success |-> TRUE,
          Error |-> NoError]
    ELSE [Repository |-> op.Repository, Operation |-> op.Command, Success |-> FALSE,
          Error |-> ErrUnknownOperation]

\* Variant of executeOperation that reports every operation as a clone
executeOperationAsClone(cancelled, op) ==
    [Repository |-> op.Repository, Operation |-> "clone", Success |-> TRUE, Error |-> NoError]

\* Pool.start: the workers of a pool of count workers
start(count) ==
    [i \in 1..count |-> [id |-> i - 1, done |-> MakeChan(0), wg |-> 0]]

Alive == pc = "pool" /\ caller.pc # "panic"

\* the goroutines of the last Execute have all returned
Settled ==
    /\ dispatcher.pc \in {"none", "done"}
    /\ sender.pc \in {"none", "done"}
    /\ \A w \in 1..Len(worker) : worker[w].pc = "done"

PoolInit ==
    /\ pc = "pool"
    /\ \E count \in 0..MaxWorkers : NewPool(count)
    /\ rootPath = PathMain
    /\ fs = EmptyMap
    /\ budget = 0
    /\ graph = NewRepositoryGraph
    /\ visited = {}
    /\ stack = <<>>
    /\ result = [graph |-> Nil, err |-> NilError]
    /\ objects = EmptyMap
    /\ last = NoCall
    /\ calls = 0

\* Execute(ctx, operations); the caller makes the next call when the goroutines of
\* the last one have returned
Execute ==
    /\ Alive /\ caller.pc = "idle" /\ ~mu
    /\ caller.executes < MaxExecutes
    /\ Settled
    /\ \E ops \in SeqsUpTo(Operations, MaxOperations), cancelled \in BOOLEAN :
          /\ operations' = ops
          /\ ctxDone' = cancelled
          /\ results' = MakeChan(Len(ops))
    /\ IF ~started
       THEN workers' = start(workerCount) /\ started' = TRUE
       ELSE UNCHANGED <<workers, started>>
    /\ dispatcher' = [pc |-> "start", i |-> 0]
    /\ sender' = NotRunning
    /\ worker' = <<>>
    /\ received' = <<>>
    /\ caller' = [caller EXCEPT !.executes = @ + 1, !.ret = "none"]
    /\ UNCHANGED <<graphVars, workerCount, mu, waiter, jobChan, wg>>

\* the dispatcher declares its WaitGroup and makes the channel of jobs
DispatcherStart ==
    /\ Alive /\ dispatcher.pc = "start"
    /\ wg' = 0
    /\ jobChan' = MakeChan(Len(operations))
    /\ dispatcher' = [pc |-> "spawn", i |-> 0]
    /\ UNCHANGED <<graphVars, workerCount, started, workers, mu, caller, waiter, ctxDone,
                   operations, results, sender, worker, received>>

\* one turn of the loop that starts the workers
DispatcherSpawn ==
    /\ Alive /\ dispatcher.pc = "spawn"
    /\ dispatcher.i < workerCount
    /\ wg' = wg + 1
    /\ worker' = Append(worker, [pc |-> "select", held |-> Nil])
    /\ dispatcher' = [dispatcher EXCEPT !.i = @ + 1]
    /\ UNCHANGED <<graphVars, workerCount, started, workers, mu, caller, waiter, ctxDone,
                   operations, jobChan, results, sender, received>>

\* the dispatcher starts the sender and goes to wait for the workers
DispatcherGo ==
    /\ Alive /\ dispatcher.pc = "spawn"
    /\ dispatcher.i >= workerCount
    /\ sender' = [pc |-> "send", i |-> 1]
    /\ dispatcher' = [dispatcher EXCEPT !.pc = "wait"]
    /\ UNCHANGED <<graphVars, workerCount, started, workers, mu, caller, waiter, ctxDone,
                   operations, jobChan, results, wg, worker, received>>

\* wg.Wait() returns and the deferred close(results) runs
DispatcherClose ==
    /\ Alive /\ dispatcher.pc = "wait"
    /\ wg = 0
    /\ results' = [results EXCEPT !.closed = TRUE]
    /\ dispatcher' = [dispatcher EXCEPT !.pc = "done"]
    /\ UNCHANGED <<graphVars, workerCount, started, workers, mu, caller, waiter, ctxDone,
                   operations, jobChan, wg, sender, worker, received>>

\* the sender puts the next operation on the channel of jobs
SenderSend ==
    /\ Alive /\ sender.pc = "send"
    /\ sender.i <= Len(operations)
    /\ Len(jobChan.buf) < jobChan.cap
    /\ jobChan' = [jobChan EXCEPT !.buf = Append(@, operations[sender.i])]
    /\ sender' = [sender EXCEPT !.i = @ + 1]
    /\ UNCHANGED <<graphVars, workerCount, started, workers, mu, caller, waiter, ctxDone,
                   operations, results, wg, dispatcher, worker, received>>

\* Variant of SenderClose in which the sender returns and leaves the channel open
SenderReturnOpen ==
    /\ Alive /\ sender.pc = "send"
    /\ sender.i > Len(operations) \/ ctxDone
    /\ sender' = [sender EXCEPT !.pc = "done"]
    /\ UNCHANGED <<graphVars, workerCount, started, workers, mu, caller, waiter, ctxDone,
                   operations, jobChan, results, wg, dispatcher, worker, received>>

\* the sender returns, at the end of the loop or on <-ctx.Done(), and the deferred
\* close(jobChan) runs
SenderClose ==
    /\ Alive /\ sender.pc = "send"
    /\ sender.i > Len(operations) \/ ctxDone
    /\ jobChan' = [jobChan EXCEPT !.closed = TRUE]
    /\ sender' = [sender EXCEPT !.pc = "done"]
    /\ UNCHANGED <<graphVars, workerCount, started, workers, mu, caller, waiter, ctxDone,
                   operations, results, wg, dispatcher, worker, received>>

\* a worker takes a job from the channel
WorkerReceive(w) ==
    /\ Alive /\ worker[w].pc = "select"
    /\ Len(jobChan.buf) > 0
    /\ worker' = [worker EXCEPT ![w] = [pc |-> "execute", held |-> Some(Head(jobChan.buf))]]
    /\ jobChan' = [jobChan EXCEPT !.buf = Tail(@)]
    /\ UNCHANGED <<graphVars, workerCount, started, workers, mu, caller, waiter, ctxDone,
                   operations, results, wg, dispatcher, sender, received>>

\* a worker returns and its deferred wg.Done() runs: the channel of jobs is closed
\* and empty, or the context is cancelled while the worker is at one of its selects
WorkerReturn(w) ==
    /\ Alive
    /\ \/ worker[w].pc = "select" /\ Len(jobChan.buf) = 0 /\ jobChan.closed
       \/ worker[w].pc \in {"select", "send"} /\ ctxDone
    /\ worker' = [worker EXCEPT ![w] = [pc |-> "done", held |-> Nil]]
    /\ wg' = wg - 1
    /\ UNCHANGED <<graphVars, workerCount, started, workers, mu, caller, waiter, ctxDone,
                   operations, jobChan, results, dispatcher, sender, received>>

WorkerExecute(w) ==
    /\ Alive /\ worker[w].pc = "execute"
    /\ worker' = [worker EXCEPT ![w] = [pc |-> "send",
                                        held |-> Some(executeOperation(ctxDone, @.held[1]))]]
    /\ UNCHANGED <<graphVars, workerCount, started, workers, mu, caller, waiter, ctxDone,
                   operations, jobChan, results, wg, dispatcher, sender, received>>

\* a worker puts its result on the channel Execute returned; a send on a closed
\* channel panics
WorkerSend(w) ==
    /\ Alive /\ worker[w].pc = "send"
    /\ IF results.closed
       THEN /\ caller' = [caller EXCEPT !.pc = "panic"]
            /\ UNCHANGED <<results, worker>>
       ELSE /\ Len(results.buf) < results.cap
            /\ results' = [results EXCEPT !.buf = Append(@, worker[w].held[1])]
            /\ worker' = [worker EXCEPT ![w] = [pc |-> "select", held |-> Nil]]
            /\ UNCHANGED caller
    /\ UNCHANGED <<graphVars, workerCount, started, workers, mu, waiter, ctxDone,
                   operations, jobChan, wg, dispatcher, sender, received>>

\* the context given to Execute is cancelled
Cancel ==
    /\ Alive /\ dispatcher.pc # "none"
    /\ ~ctxDone
    /\ ctxDone' = TRUE
    /\ UNCHANGED <<graphVars, workerCount, started, workers, mu, caller, waiter, operations,
                   jobChan, results, wg, dispatcher, sender, worker, received>>

\* the caller takes a result from the channel Execute returned (main.go 199)
Receive ==
    /\ Alive
    /\ Len(results.buf) > 0
    /\ received' = Append(received, Head(results.buf))
    /\ results' = [results EXCEPT !.buf = Tail(@)]
    /\ UNCHANGED <<graphVars, workerCount, started, workers, mu, caller, waiter, ctxDone,
                   operations, jobChan, wg, dispatcher, sender, worker>>

\* the steps of the goroutines Execute starts
ExecuteGoroutines ==
    \/ DispatcherStart
    \/ DispatcherSpawn
    \/ DispatcherGo
    \/ DispatcherClose
    \/ SenderSend
    \/ SenderClose
    \/ \E w \in 1..Len(worker) : WorkerReceive(w)
    \/ \E w \in 1..Len(worker) : WorkerReturn(w)
    \/ \E w \in 1..Len(worker) : WorkerExecute(w)
    \/ \E w \in 1..Len(worker) : WorkerSend(w)

ExecuteNext ==
    \/ Execute
    \/ ExecuteGoroutines
    \/ Cancel
    \/ Receive

\* one call of Execute and its goroutines, with nothing else called on the pool
ExecuteSpec == PoolInit /\ [][ExecuteNext]_vars

\* a goroutine that can take a step takes one in the end
FairExecuteSpec == ExecuteSpec /\ WF_vars(ExecuteGoroutines)

\* close(c) of every worker's done channel, in order; closing a closed channel
\* panics
RECURSIVE closeAll(_, _)
closeAll(ws, i) ==
    IF i > Len(ws) THEN [workers |-> ws, panic |-> FALSE]
    ELSE IF ws[i].done.closed THEN [workers |-> ws, panic |-> TRUE]
    ELSE closeAll([ws EXCEPT ![i].done.closed = TRUE], i + 1)

\* Shutdown(ctx) up to its select: on a pool that is not started it returns nil
Shutdown ==
    /\ Alive /\ caller.pc = "idle" /\ ~mu
    /\ caller.shutdowns < MaxShutdowns
    /\ IF ~started
       THEN /\ caller' = [caller EXCEPT !.ret = "nil", !.shutdowns = @ + 1]
            /\ UNCHANGED <<workers, mu, waiter>>
       ELSE LET closed == closeAll(workers, 1)
            IN /\ workers' = closed.workers
               /\ IF closed.panic
                  THEN /\ caller' = [caller EXCEPT !.pc = "panic", !.shutdowns = @ + 1]
                       /\ UNCHANGED <<mu, waiter>>
                  ELSE \E cancelled \in BOOLEAN :
                         /\ caller' = [caller EXCEPT !.pc = "select", !.ret = "none",
                                                     !.ctxDone = cancelled,
                                                     !.shutdowns = @ + 1]
                         /\ mu' = TRUE
                         /\ waiter' = [waiter EXCEPT !.pc = "wait"]
    /\ UNCHANGED <<graphVars, workerCount, started, ctxDone, operations, jobChan, results,
                   wg, dispatcher, sender, worker, received>>

\* the waiter has waited for the WaitGroup of every worker and is at done <- true
WaiterWait ==
    /\ Alive /\ waiter.pc = "wait"
    /\ \A i \in 1..Len(workers) : workers[i].wg = 0
    /\ waiter' = [waiter EXCEPT !.pc = "send"]
    /\ UNCHANGED <<graphVars, workerCount, started, workers, mu, caller, ctxDone, operations,
                   jobChan, results, wg, dispatcher, sender, worker, received>>

\* the select of Shutdown takes <-done: the pool is stopped and Shutdown returns nil
ShutdownDone ==
    /\ Alive /\ caller.pc = "select"
    /\ waiter.pc = "send"
    /\ started' = FALSE
    /\ workers' = <<>>
    /\ mu' = FALSE
    /\ waiter' = [waiter EXCEPT !.pc = "none"]
    /\ caller' = [caller EXCEPT !.pc = "idle", !.ret = "nil"]
    /\ UNCHANGED <<graphVars, workerCount, ctxDone, operations, jobChan, results, wg,
                   dispatcher, sender, worker, received>>

\* the select of Shutdown takes <-ctx.Done(): Shutdown returns ctx.Err() and nobody
\* is left to receive what the waiter sends
ShutdownCancelled ==
    /\ Alive /\ caller.pc = "select"
    /\ caller.ctxDone
    /\ mu' = FALSE
    /\ waiter' = [pc |-> "none", blocked |-> waiter.blocked + 1]
    /\ caller' = [caller EXCEPT !.pc = "idle", !.ret = "ctx"]
    /\ UNCHANGED <<graphVars, workerCount, started, workers, ctxDone, operations, jobChan,
                   results, wg, dispatcher, sender, worker, received>>

\* the context given to Shutdown is cancelled while Shutdown is at its select
CancelShutdown ==
    /\ Alive /\ caller.pc = "select"
    /\ ~caller.ctxDone
    /\ caller' = [caller EXCEPT !.ctxDone = TRUE]
    /\ UNCHANGED <<graphVars, workerCount, started, workers, mu, waiter, ctxDone, operations,
                   jobChan, results, wg, dispatcher, sender, worker, received>>

PoolNext ==
    \/ Execute
    \/ ExecuteGoroutines
    \/ Cancel
    \/ Receive
    \/ Shutdown
    \/ WaiterWait
    \/ ShutdownDone
    \/ ShutdownCancelled
    \/ CancelShutdown

PoolSpec == PoolInit /\ [][PoolNext]_vars

(***************************************************************************)
(* Properties of BuildGraph                                                *)
(***************************************************************************)
\* BuildGraph has returned a graph
Built == pc = "done" /\ result.graph # Nil

NodesOfType(nodeType) == {id \in DOMAIN graph.Nodes : graph.Nodes[id].Type = nodeType}

ConfigIDs == NodesOfType(NodeTypeConfig)
RepositoryIDs == NodesOfType(NodeTypeRepository)
GroupIDs == NodesOfType(NodeTypeGroup)

\* the nodes reachable from a node along Children
RECURSIVE ChildClosure(_)
ChildClosure(ids) ==
    LET more == ids \cup UNION {Range(graph.Nodes[id].Children) : id \in ids}
    IN IF more = ids THEN ids ELSE ChildClosure(more)

DescendantsOf(id) == ChildClosure(Range(graph.Nodes[id].Children))

\* each secondary index lists exactly what the primary maps hold now
IndexesRebuilt ==
    /\ \A t \in DOMAIN graph.NodesByType :
          /\ Range(graph.NodesByType[t]) = NodesOfType(t)
          /\ Len(graph.NodesByType[t]) = Cardinality(NodesOfType(t))
    /\ \A l \in DOMAIN graph.NodesByLevel :
          /\ Range(graph.NodesByLevel[l]) = {id \in DOMAIN graph.Nodes : graph.Nodes[id].Level = l}
          /\ Len(graph.NodesByLevel[l])
                 = Cardinality({id \in DOMAIN graph.Nodes : graph.Nodes[id].Level = l})
    /\ \A id \in DOMAIN graph.Nodes :
          /\ HasKey(graph.NodesByType, graph.Nodes[id].Type)
          /\ HasKey(graph.NodesByLevel, graph.Nodes[id].Level)
          /\ HasKey(graph.NodesByPath, graph.Nodes[id].FullPath)
    /\ \A id \in DOMAIN graph.Relationships :
          /\ id \in Range(SliceAt(graph.RelationsByType, graph.Relationships[id].Type))
          /\ id \in Range(SliceAt(graph.RelationsByFrom, graph.Relationships[id].FromID))
          /\ id \in Range(SliceAt(graph.RelationsByTo, graph.Relationships[id].ToID))

\* what ValidateGraph is to establish: relationships join nodes of the graph, and no
\* node is its own descendant
WellFormed ==
    /\ \A id \in DOMAIN graph.Relationships :
          /\ HasKey(graph.Nodes, graph.Relationships[id].FromID)
          /\ HasKey(graph.Nodes, graph.Relationships[id].ToID)
    /\ \A id \in DOMAIN graph.Nodes : id \notin DescendantsOf(id)

\* C1: BuildGraph returns a graph exactly when it returns no error; nothing is
\* returned before it ends; a returned graph has its indexes rebuilt, is well formed,
\* and passes ValidateGraph in whatever order its nodes are visited; an error names
\* the step that failed and comes with no graph.
C1_GraphXorError ==
    /\ pc # "done" => result = [graph |-> Nil, err |-> NilError]
    /\ pc = "done" =>
          /\ (result.graph # Nil) <=> (result.err = NilError)
          /\ result.graph # Nil =>
                /\ IndexesRebuilt
                /\ WellFormed
                /\ \A ord \in ScanOrders(DOMAIN graph.Nodes) : ValidateGraph(graph, ord) = NoError
          /\ result.err # NilError =>
                /\ result.graph = Nil
                /\ result.err.cause # NoError
                /\ result.err.step \in
                       {"root", "hierarchy", "repositories", "groups", "tags", "validation"}

\* a graph is returned for a hierarchy of several files with repositories and a group
C1_Witness ==
    /\ Built
    /\ Cardinality(ConfigIDs) >= 2
    /\ RepositoryIDs # {}
    /\ GroupIDs # {}

IsAscending(strs) == \A i, j \in 1..Len(strs) : i < j => StrLess(strs[i], strs[j])

\* the names of the repository nodes in the scope of a node
ReposInScope(scopeNode) ==
    {graph.Nodes[id].Name : id \in {r \in RepositoryIDs : IsInScope(graph.Nodes[r], scopeNode)}}

\* C2: in a built graph a group defined with an empty list is marked empty and its
\* inherited repositories are the names of the repository nodes in its scope, in
\* ascending order without repetition; a group defined with a non-empty list is not
\* marked empty and inherits nothing.
C2_InheritedRepos ==
    Built =>
        \A id \in GroupIDs :
            LET def == graph.Nodes[id].Group[1]
            IN IF def.ExplicitRepos = <<>>
               THEN /\ def.IsEmpty
                    /\ IsAscending(def.InheritedRepos)
                    /\ Range(def.InheritedRepos) = ReposInScope(graph.Nodes[id])
               ELSE /\ ~def.IsEmpty
                    /\ def.InheritedRepos = <<>>

\* the root file declares api and web, an included file declares db and an empty
\* group: the group inherits db alone
C2_Witness ==
    /\ Built
    /\ {graph.Nodes[r].Name : r \in RepositoryIDs} = {Api, Web, Db}
    /\ \E id \in GroupIDs :
          /\ graph.Nodes[id].Group[1].IsEmpty
          /\ graph.Nodes[id].Group[1].InheritedRepos = <<Db>>

\* buildConfigHierarchy is about to be called for the path p
Expanding(p) ==
    /\ pc = "hierarchy"
    /\ Len(stack) > 0
    /\ Len(Top.todo) > 0
    /\ Top.todo[1] = p

\* C3: when the include chain leads back to a file whose expansion is still in
\* progress, BuildGraph ends at once with the circular-dependency error of the
\* hierarchy step and returns no graph.
C3_CycleStopsBuild ==
    [][\A p \in IncludeTargets :
          (Expanding(p) /\ p \in StackPaths)
              => /\ pc' = "done"
                 /\ result'.graph = Nil
                 /\ result'.err = Wrap("hierarchy", ErrCircularDependency)]_vars

\* a build of at least two files has ended with the circular-dependency error
C3_Witness ==
    /\ pc = "done"
    /\ result.err = Wrap("hierarchy", ErrCircularDependency)
    /\ result.graph = Nil
    /\ Cardinality(DOMAIN fs) >= 2

\* C25: at every step of a build the paths marked in the builder are the paths of
\* the buildConfigHierarchy calls in progress, and when BuildGraph has returned, with
\* a graph or with an error, no path is marked: the builder is as NewGraphBuilder
\* made it.
C25_MarkedWhileExpanding ==
    /\ visited = StackPaths
    /\ pc = "done" => visited = {}

\* a build has ended inside a nested expansion with an error other than the cycle
\* error
C25_Witness ==
    /\ pc = "done"
    /\ result.err.step = "hierarchy"
    /\ result.err.cause # ErrCircularDependency
    /\ Cardinality(DOMAIN fs) >= 2
    /\ visited = {}

\* C4: expanding again a file whose earlier expansion has returned does not end the
\* build with an error.
C4_DiamondReuse ==
    [][\A p \in Files :
          (Expanding(p) /\ HasKey(fs, p) /\ p \notin StackPaths) => pc' # "done"]_vars

\* the repository records of the expanded files: <<config node, position>>
RepositoryRecords ==
    UNION {{<<c, i>> : i \in 1..Len(graph.Nodes[c].Config[1].Repositories)} : c \in ConfigIDs}

RecordName(x) == graph.Nodes[x[1]].Config[1].Repositories[x[2]].Name

DuplicateRepositoryName ==
    \E x, y \in RepositoryRecords : x # y /\ RecordName(x) = RecordName(y)

\* C5: when two repository records of the expanded files carry the same name, no
\* graph is returned, and once the hierarchy is expanded the build fails in the
\* repository step with the duplicate-node error; in a built graph repository names
\* are pairwise distinct and AllRepositories maps each name to the node "repo_"+name.
C5_RepositoryNames ==
    /\ (pc = "done" /\ DuplicateRepositoryName) =>
          /\ result.graph = Nil
          /\ result.err.step # "hierarchy"
                 => result.err = Wrap("repositories", ErrDuplicateNode)
    /\ Built =>
          /\ \A r1, r2 \in RepositoryIDs :
                 r1 # r2 => graph.Nodes[r1].Name # graph.Nodes[r2].Name
          /\ DOMAIN graph.AllRepositories = {graph.Nodes[r].Name : r \in RepositoryIDs}
          /\ \A r \in RepositoryIDs :
                /\ graph.AllRepositories[graph.Nodes[r].Name] = r
                /\ r = <<"repo", "_">> \o graph.Nodes[r].Name
          /\ Cardinality(RepositoryIDs) = Cardinality(RepositoryRecords)

\* two different files declare the same repository name and the build fails for it
C5_Witness ==
    /\ pc = "done"
    /\ \E x, y \in RepositoryRecords : x[1] # y[1] /\ RecordName(x) = RecordName(y)
    /\ result = [graph |-> Nil, err |-> Wrap("repositories", ErrDuplicateNode)]

\* the group definitions of the expanded files: <<config node, group name>>
GroupDefinitions ==
    UNION {{<<c, name>> : name \in DOMAIN graph.Nodes[c].Config[1].Groups} : c \in ConfigIDs}

\* the scope (full path) at which a config node defines its groups
GroupScope(c) == DefinedFullPath(graph.Nodes[c])

SameScopePair(x, y) == x # y /\ x[2] = y[2] /\ GroupScope(x[1]) = GroupScope(y[1])

\* C6: once the repositories are derived, two definitions of one group name at the
\* same scope make the build fail in the group step with the duplicate-node error;
\* when every two definitions of a name are at different scopes the build succeeds
\* and the graph holds a group node for each of them.
C6_SameNameGroups ==
    (pc = "done" /\ result.err.step \notin {"root", "hierarchy", "repositories"}) =>
        /\ (\E x, y \in GroupDefinitions : SameScopePair(x, y))
               => result = [graph |-> Nil, err |-> Wrap("groups", ErrDuplicateNode)]
        /\ (\A x, y \in GroupDefinitions : ~SameScopePair(x, y))
               => /\ result.graph # Nil
                  /\ \A x \in GroupDefinitions :
                        \E id \in GroupIDs :
                            /\ graph.Nodes[id].Name = x[2]
                            /\ graph.Nodes[id].FullPath = GroupScope(x[1])
                            /\ graph.Nodes[id].SourceConfig = x[1]
                  /\ Cardinality(GroupIDs) = Cardinality(GroupDefinitions)

\* the nodes that carry tags and labels, and their uses of them as the files declare
\* them
Carriers == ConfigIDs \cup RepositoryIDs

\* the record of the files that a repository node stands for
DeclaredRecord(r) ==
    LET records == graph.Nodes[graph.Nodes[r].SourceConfig].Config[1].Repositories
    IN records[CHOOSE i \in 1..Len(records) : records[i].Name = graph.Nodes[r].Name]

DeclaredTags(c) ==
    IF graph.Nodes[c].Type = NodeTypeConfig THEN graph.Nodes[c].Config[1].Global.Tags
    ELSE DeclaredRecord(c).Tags

DeclaredLabels(c) ==
    IF graph.Nodes[c].Type = NodeTypeConfig THEN graph.Nodes[c].Config[1].Global.Labels
    ELSE DeclaredRecord(c).Labels

TagUses == UNION {{<<c, name>> : name \in DOMAIN DeclaredTags(c)} : c \in Carriers}

LabelUses == UNION {{<<c, name>> : name \in Range(DeclaredLabels(c))} : c \in Carriers}

TagValue(use) == DeclaredTags(use[1])[use[2]]

TagNodesFor(name, value) ==
    {id \in NodesOfType(NodeTypeTag) :
        graph.Nodes[id].Tag[1].Name = name /\ graph.Nodes[id].Tag[1].Value = value}

LabelNodesFor(name) ==
    {id \in NodesOfType(NodeTypeLabel) : graph.Nodes[id].Label[1].Name = name}

\* the relationships of a type that point at a node
Incoming(relType, toID) ==
    {r \in DOMAIN graph.Relationships :
        graph.Relationships[r].Type = relType /\ graph.Relationships[r].ToID = toID}

\* there is one relationship from each of the carriers to the node, and no other
OnePerCarrier(relType, toID, carriers) ==
    /\ {graph.Relationships[r].FromID : r \in Incoming(relType, toID)} = carriers
    /\ Cardinality(Incoming(relType, toID)) = Cardinality(carriers)

\* C7: a built graph holds exactly one tag node for every (name, value) pair some
\* config or repository carries, with one incoming tagged_with relationship per
\* carrier of the pair, and exactly one label node for every label name, with one
\* incoming labeled_with relationship per carrier of the label.
C7_SharedTagsAndLabels ==
    Built =>
        /\ \A use \in TagUses :
              /\ Cardinality(TagNodesFor(use[2], TagValue(use))) = 1
              /\ \A t \in TagNodesFor(use[2], TagValue(use)) :
                     OnePerCarrier(RelationTaggedWith, t,
                                   {u[1] : u \in {v \in TagUses : /\ v[2] = use[2]
                                                                  /\ TagValue(v) = TagValue(use)}})
        /\ \A use \in LabelUses :
              /\ Cardinality(LabelNodesFor(use[2])) = 1
              /\ \A l \in LabelNodesFor(use[2]) :
                     OnePerCarrier(RelationLabeledWith, l,
                                   {u[1] : u \in {v \in LabelUses : v[2] = use[2]}})
        /\ \A t \in NodesOfType(NodeTypeTag) :
              \E use \in TagUses : t \in TagNodesFor(use[2], TagValue(use))
        /\ \A l \in NodesOfType(NodeTypeLabel) :
              \E use \in LabelUses : l \in LabelNodesFor(use[2])

\* the config nodes of the root configuration file
RootConfigIDs == {c \in ConfigIDs : graph.Nodes[c].Parent = Some(RootID)}

\* C8: in a built graph a group the root configuration file defines with an empty
\* list has every repository of the hierarchy as a member.
C8_RootGroupIncludesAll ==
    Built =>
        \A id \in GroupIDs :
            (/\ graph.Nodes[id].SourceConfig \in RootConfigIDs
             /\ graph.Nodes[id].Group[1].ExplicitRepos = <<>>)
                => /\ Range(graph.Nodes[id].Group[1].InheritedRepos)
                          = {graph.Nodes[r].Name : r \in RepositoryIDs}
                   /\ \A r \in RepositoryIDs :
                          \E x \in Incoming(RelationIncludes, r) :
                              graph.Relationships[x].FromID = id

\* C9: for every two nodes n and s of a built graph, n is in the scope of s exactly
\* when s is the root node, or the full paths are equal, or the full path of n starts
\* with the full path of s followed by "/".
C9_ScopeFormula ==
    Built =>
        \A n, s \in DOMAIN graph.Nodes :
            IsInScope(graph.Nodes[n], graph.Nodes[s])
                <=> \/ graph.Nodes[s].Type = NodeTypeRoot
                    \/ graph.Nodes[n].FullPath = graph.Nodes[s].FullPath
                    \/ HasPrefix(graph.Nodes[n].FullPath, graph.Nodes[s].FullPath \o <<"/">>)

IsPathPrefix(p, q) == Len(p) <= Len(q) /\ SubSeq(q, 1, Len(p)) = p

\* C10: in the tree of a built graph every descendant of a node is in the scope of
\* that node, and of two nodes neither of whose paths is a prefix of the other's,
\* neither is in the scope of the other.
C10_ScopeMonotone ==
    Built =>
        \A a, b \in DOMAIN graph.Nodes :
            /\ b \in DescendantsOf(a) => IsInScope(graph.Nodes[b], graph.Nodes[a])
            /\ (/\ ~IsPathPrefix(graph.Nodes[a].Path, graph.Nodes[b].Path)
                /\ ~IsPathPrefix(graph.Nodes[b].Path, graph.Nodes[a].Path))
                   => /\ ~IsInScope(graph.Nodes[a], graph.Nodes[b])
                      /\ ~IsInScope(graph.Nodes[b], graph.Nodes[a])

(***************************************************************************)
(* Properties of the engine under the calls of its clients                 *)
(***************************************************************************)
Rebuilt == BuildIndexes(graph, Enumerate(DOMAIN graph.Nodes), Enumerate(DOMAIN graph.Relationships))

\* two list-valued indexes hold the same elements under every key
SameAsSets(index, other) ==
    \A key \in (DOMAIN index) \cup (DOMAIN other) :
        Range(SliceAt(index, key)) = Range(SliceAt(other, key))

IndexesCurrent ==
    /\ SameAsSets(graph.NodesByType, Rebuilt.NodesByType)
    /\ SameAsSets(graph.NodesByLevel, Rebuilt.NodesByLevel)
    /\ SameAsSets(graph.NodesByTag, Rebuilt.NodesByTag)
    /\ SameAsSets(graph.RelationsByType, Rebuilt.RelationsByType)
    /\ SameAsSets(graph.RelationsByFrom, Rebuilt.RelationsByFrom)
    /\ SameAsSets(graph.RelationsByTo, Rebuilt.RelationsByTo)
    /\ DOMAIN graph.NodesByPath = DOMAIN Rebuilt.NodesByPath
    /\ DOMAIN graph.AllRepositories = DOMAIN Rebuilt.AllRepositories
    /\ DOMAIN graph.AllGroups = DOMAIN Rebuilt.AllGroups

\* C11: after a sequence of successful AddNode, AddRelationship, RemoveNode and
\* RemoveRelationship calls on an empty graph, with no other call in between, every
\* list-valued index holds the elements BuildIndexes would put there, and the path
\* index and the two name caches have a key exactly when a node of the graph has that
\* path or name.
C11_IndexesCurrent ==
    (pc = "client" /\ last.onlyMutators) => IndexesCurrent

\* the node object of an ID, in the graph or out of it
Object(id) == IF HasKey(graph.Nodes, id) THEN graph.Nodes[id] ELSE objects[id]

\* the IDs held by a list-valued index, under any key
Indexed(index) == UNION {Range(index[key]) : key \in DOMAIN index}

Removed(id) == pc = "client" /\ last.op = "RemoveNode" /\ last.arg = id /\ last.err = NoError

\* C12: after a successful RemoveNode(id) the node is not in the children list of its
\* parent, no relationship with id as an endpoint is left in the relationship map or in
\* the by-type, by-from and by-to indexes, the node is absent from the node map, the
\* type, level and tag indexes and the name caches, and GetNode(id) finds nothing.
C12_RemoveNodeComplete ==
    \A id \in DOMAIN ClientNodes :
        Removed(id) =>
            /\ Len(objects[id].Parent) = 1 => id \notin Range(Object(objects[id].Parent[1]).Children)
            /\ \A relID \in DOMAIN graph.Relationships :
                   /\ graph.Relationships[relID].FromID # id
                   /\ graph.Relationships[relID].ToID # id
            /\ \A relID \in Indexed(graph.RelationsByType) \cup Indexed(graph.RelationsByFrom)
                                \cup Indexed(graph.RelationsByTo) :
                   /\ ClientRelationships[relID].FromID # id
                   /\ ClientRelationships[relID].ToID # id
            /\ ~HasKey(graph.Nodes, id)
            /\ id \notin Indexed(graph.NodesByType)
            /\ id \notin Indexed(graph.NodesByLevel)
            /\ id \notin Indexed(graph.NodesByTag)
            /\ id \notin Range(graph.AllRepositories) \cup Range(graph.AllGroups)
            /\ GetNode(graph, id) = Nil

\* the condition under which the call recorded in last' is taken in a state to fail
MustFail ==
    \/ last'.op = "AddNode" /\ HasKey(graph.Nodes, last'.arg)
    \/ last'.op = "AddRelationship" /\ HasKey(graph.Relationships, last'.arg)
    \/ last'.op = "RemoveNode" /\ ~HasKey(graph.Nodes, last'.arg)
    \/ last'.op = "RemoveRelationship" /\ ~HasKey(graph.Relationships, last'.arg)

\* C13: AddNode on an ID of the node map, AddRelationship on an ID of the relationship
\* map, RemoveNode on an absent ID and RemoveRelationship on an absent ID return an
\* error, and a mutator that returns an error leaves the graph, its indexes and the
\* node objects as they were.
C13_FailureChangesNothing ==
    [][(pc = "client" /\ last'.op \in Mutators) =>
           /\ MustFail <=> last'.err # NoError
           /\ last'.err # NoError => (graph' = graph /\ objects' = objects)]_vars

C13_Witness ==
    /\ pc = "client"
    /\ last.op = "AddNode" /\ last.err = ErrDuplicateNode
    /\ HasKey(graph.Nodes, last.arg)
    /\ Len(SliceAt(graph.NodesByType, NodeTypeRepository)) = 1

Dangling ==
    \E relID \in DOMAIN graph.Relationships :
        \/ ~HasKey(graph.Nodes, graph.Relationships[relID].FromID)
        \/ ~HasKey(graph.Nodes, graph.Relationships[relID].ToID)

\* the nodes reached from the nodes of ids along children lists, those of ids included
RECURSIVE Descend(_)
Descend(ids) ==
    LET next == ids \cup UNION {Range(Object(id).Children) : id \in ids}
    IN IF next = ids THEN ids ELSE Descend(next)

\* a node reached from the graph is reached from itself along children lists
StructuralCycle ==
    \E id \in Descend(DOMAIN graph.Nodes) : id \in Descend(Range(Object(id).Children))

\* the node objects whose children list holds id
Parents(id) == {p \in DOMAIN ClientNodes : id \in Range(Object(p).Children)}

\* C15: ValidateGraph returns an error exactly when a relationship has an endpoint that
\* is not in the node map, or when following children lists from a node of the graph
\* leads back to a node of the path followed; relationships of type parent_child play
\* no part in the second test, and a node reached along two paths without a cycle is
\* no error.
C15_ValidateGraph ==
    (pc = "client" /\ last.op = "ValidateGraph") =>
        /\ last.err # NoError <=> (Dangling \/ StructuralCycle)
        /\ last.err = ErrDanglingRelationship <=> Dangling
        /\ last.err = ErrStructuralCycle <=> (~Dangling /\ StructuralCycle)

C15_Witness ==
    /\ pc = "client" /\ last.op = "ValidateGraph" /\ last.err = NoError
    /\ \E id \in Descend(DOMAIN graph.Nodes) : Cardinality(Parents(id)) = 2

\* the path AddChild gives the children of a node
ChildPath(parent) ==
    IF parent.Type # NodeTypeRoot THEN Append(parent.Path, parent.Name) ELSE parent.Path

\* C21: after any sequence of AddChild calls every node that has a parent has the level
\* of its parent plus one, the path of its parent followed by the parent's name (not
\* followed by it when the parent is the root node), and as full path that path joined
\* by "/", or "root" when the path is empty.
C21_PathOfAncestors ==
    pc = "client" =>
        \A id \in DOMAIN ClientNodes :
            Len(Object(id).Parent) = 1 =>
                LET parent == Object(Object(id).Parent[1])
                IN /\ Object(id).Level = parent.Level + 1
                   /\ Object(id).Path = ChildPath(parent)
                   /\ Object(id).FullPath = PathStringOf(ChildPath(parent), EmptyStr)

\* how often x occurs in a list
Occurrences(seq, x) == Cardinality({i \in 1..Len(seq) : seq[i] = x})

\* every node and relationship of the primary maps of g is listed exactly once where it
\* belongs, and the indexes of g hold nothing else
ExactlyIndexed(g) ==
    /\ \A id \in DOMAIN g.Nodes :
           /\ \A key \in DOMAIN g.NodesByType :
                  Occurrences(g.NodesByType[key], id) = IF g.Nodes[id].Type = key THEN 1 ELSE 0
           /\ \A key \in DOMAIN g.NodesByLevel :
                  Occurrences(g.NodesByLevel[key], id) = IF g.Nodes[id].Level = key THEN 1 ELSE 0
           /\ \A key \in DOMAIN g.NodesByTag :
                  Occurrences(g.NodesByTag[key], id) = Occurrences(g.Nodes[id].Tags, key)
           /\ HasKey(g.NodesByType, g.Nodes[id].Type)
           /\ HasKey(g.NodesByLevel, g.Nodes[id].Level)
           /\ HasKey(g.NodesByPath, GetPathString(g.Nodes[id]))
           /\ Range(g.Nodes[id].Tags) \subseteq DOMAIN g.NodesByTag
    /\ \A id \in DOMAIN g.Relationships :
           /\ \A key \in DOMAIN g.RelationsByType :
                  Occurrences(g.RelationsByType[key], id)
                      = IF g.Relationships[id].Type = key THEN 1 ELSE 0
           /\ \A key \in DOMAIN g.RelationsByFrom :
                  Occurrences(g.RelationsByFrom[key], id)
                      = IF g.Relationships[id].FromID = key THEN 1 ELSE 0
           /\ \A key \in DOMAIN g.RelationsByTo :
                  Occurrences(g.RelationsByTo[key], id)
                      = IF g.Relationships[id].ToID = key THEN 1 ELSE 0
           /\ HasKey(g.RelationsByType, g.Relationships[id].Type)
           /\ HasKey(g.RelationsByFrom, g.Relationships[id].FromID)
           /\ HasKey(g.RelationsByTo, g.Relationships[id].ToID)
    /\ UNION {Range(g.NodesByType[key]) : key \in DOMAIN g.NodesByType} \subseteq DOMAIN g.Nodes
    /\ UNION {Range(g.NodesByLevel[key]) : key \in DOMAIN g.NodesByLevel} \subseteq DOMAIN g.Nodes
    /\ UNION {Range(g.NodesByTag[key]) : key \in DOMAIN g.NodesByTag} \subseteq DOMAIN g.Nodes
    /\ Range(g.NodesByPath) \cup Range(g.AllRepositories) \cup Range(g.AllGroups)
           \subseteq DOMAIN g.Nodes
    /\ UNION {Range(g.RelationsByType[key]) : key \in DOMAIN g.RelationsByType}
           \subseteq DOMAIN g.Relationships
    /\ UNION {Range(g.RelationsByFrom[key]) : key \in DOMAIN g.RelationsByFrom}
           \subseteq DOMAIN g.Relationships
    /\ UNION {Range(g.RelationsByTo[key]) : key \in DOMAIN g.RelationsByTo}
           \subseteq DOMAIN g.Relationships

\* the same indexes and name caches, the order within a list apart
SameIndexes(g, h) ==
    /\ \A name \in {"NodesByType", "NodesByLevel", "NodesByTag",
                    "RelationsByType", "RelationsByFrom", "RelationsByTo"} :
           /\ DOMAIN g[name] = DOMAIN h[name]
           /\ \A key \in DOMAIN g[name] : Range(g[name][key]) = Range(h[name][key])
    /\ g.NodesByPath = h.NodesByPath
    /\ g.AllRepositories = h.AllRepositories
    /\ g.AllGroups = h.AllGroups

\* C22: whatever the indexes held before, BuildIndexes leaves the node map, the
\* relationship map and the parent and children links as they were, lists every node
\* once under its type and its level and once for each of its tags, lists every
\* relationship once under its type, its source and its target, puts nothing in an
\* index that is not in the primary maps, and a second BuildIndexes gives the same
\* indexes and name caches as the first.
C22_IndexesFromPrimaryMaps ==
    [][(pc = "client" /\ last'.op = "BuildIndexes") =>
           /\ graph'.Nodes = graph.Nodes
           /\ graph'.Relationships = graph.Relationships
           /\ objects' = objects
           /\ ExactlyIndexed(graph')
           /\ \A nodeOrder \in ScanOrders(DOMAIN graph'.Nodes) :
              \A relOrder \in ScanOrders(DOMAIN graph'.Relationships) :
                  SameIndexes(BuildIndexes(graph', nodeOrder, relOrder), graph')]_vars

\* the parent and the children of every node of the graph are nodes of the graph
FamilyInGraph(g) ==
    \A id \in DOMAIN g.Nodes :
        /\ Len(g.Nodes[id].Parent) = 1 => g.Nodes[id].Parent[1] \in DOMAIN g.Nodes
        /\ Range(g.Nodes[id].Children) \subseteq DOMAIN g.Nodes

\* C26: a successful RemoveNode on a graph whose nodes have their parents and
\* children in the graph leaves such a graph: no remaining node has the removed
\* node as its parent or in its children list.
C26_NoDanglingFamily ==
    [][(/\ pc = "client"
        /\ FamilyInGraph(graph)
        /\ last'.op = "RemoveNode"
        /\ last'.err = NoError) => FamilyInGraph(graph')]_vars

(***************************************************************************)
(* Further properties of BuildGraph and of the queries on a built graph    *)
(***************************************************************************)
\* the nodes whose children list holds id
ListedBy(id) == {p \in DOMAIN graph.Nodes : id \in Range(graph.Nodes[p].Children)}

\* C14: in a built graph every node but the root has exactly one parent and is in the
\* children list of that parent and of no other node; the root has no parent.
C14_ContainmentTree ==
    Built =>
        \A id \in DOMAIN graph.Nodes :
            IF graph.Nodes[id].Type = NodeTypeRoot
            THEN graph.Nodes[id].Parent = Nil /\ ListedBy(id) = {}
            ELSE /\ Len(graph.Nodes[id].Parent) = 1
                 /\ ListedBy(id) = {graph.Nodes[id].Parent[1]}

\* the label step calls createLabelRelationship for carrier c with one relationship ID
\* twice: the second AddRelationship returns the duplicate error
RecordsLabelTwice(c) ==
    LET labels == CarriedLabels(graph.Nodes[c])
    IN \E i \in 1..Len(labels) : \E j \in 1..Len(labels) :
           i < j /\ LabeledID(c, LabelNodeID(labels[i])) = LabeledID(c, LabelNodeID(labels[j]))

\* C16: an error of an AddRelationship call of the tag and label step aborts the build
\* as every other AddNode or AddRelationship error does: no graph is returned when a
\* node lists the same label twice.
C16_FirstErrorAborts ==
    Built => \A c \in Carriers : ~RecordsLabelTwice(c)

\* the graphs the last step of a build may leave, one for each order in which
\* BuildIndexes may visit the node map and the relationship map
IndexedGraphs ==
    {BuildIndexes(graph, nodeOrder, relOrder) :
        nodeOrder \in ScanOrders(DOMAIN graph.Nodes),
        relOrder \in ScanOrders(DOMAIN graph.Relationships)}

SameAnswers(g, h) ==
    /\ g.Nodes = h.Nodes
    /\ g.Relationships = h.Relationships
    /\ \A path \in (DOMAIN g.NodesByPath) \cup (DOMAIN h.NodesByPath) :
           GetNodesByPath(g, path) = GetNodesByPath(h, path)
    /\ GetGroupsForDisplay(g) = GetGroupsForDisplay(h)
    /\ GetMergedConfig(g) = GetMergedConfig(h)

\* C17: the order in which maps are visited makes no difference to a build: the group
\* step yields the same nodes and relationships (group member lists included) for
\* every order of the group definitions, and the graphs that BuildIndexes may leave
\* give the same nodes, relationships and answers of GetNodesByPath (for every path),
\* GetGroupsForDisplay and GetMergedConfig.
C17_Deterministic ==
    /\ pc = "groups" =>
           \A o1, o2 \in GroupOrders(graph) :
               /\ processGroups(graph, o1).err = processGroups(graph, o2).err
               /\ processGroups(graph, o1).graph.Nodes = processGroups(graph, o2).graph.Nodes
               /\ processGroups(graph, o1).graph.Relationships
                      = processGroups(graph, o2).graph.Relationships
    /\ pc = "finalize" => \A g, h \in IndexedGraphs : SameAnswers(g, h)

\* the resolved members of a group node
Members(id) ==
    Range(graph.Nodes[id].Group[1].ExplicitRepos) \cup Range(graph.Nodes[id].Group[1].InheritedRepos)

SharesName(id) == \E other \in GroupIDs \ {id} : graph.Nodes[other].Name = graph.Nodes[id].Name

\* the key under which a group is to be shown
DisplayKey(id) ==
    IF SharesName(id) /\ GetPathString(graph.Nodes[id]) # RootStr
    THEN LastPart(GetPathString(graph.Nodes[id])) \o <<"-">> \o graph.Nodes[id].Name
    ELSE graph.Nodes[id].Name

\* C18: GetGroupsForDisplay of a built graph has, for each group node with a member,
\* the ascending list without repetition of its explicit and inherited repository
\* names, under the bare group name, or under the last segment of the group's full
\* path, "-" and the name when another group node has the same name and the group is
\* not at the root scope; it has no other keys.
C18_GroupsForDisplay ==
    Built =>
        LET shown == GetGroupsForDisplay(graph)
        IN /\ \A id \in GroupIDs :
                  Members(id) # {} =>
                      /\ HasKey(shown, DisplayKey(id))
                      /\ IsAscending(shown[DisplayKey(id)])
                      /\ Range(shown[DisplayKey(id)]) = Members(id)
           /\ \A key \in DOMAIN shown :
                  \E id \in GroupIDs : Members(id) # {} /\ DisplayKey(id) = key

\* the group nodes that GetGroupsForDisplay does not skip
GroupsWithMembers == {id \in GroupIDs : Members(id) # {}}

\* C27: in a built graph no two group nodes with members get the same display name,
\* and GetGroupsForDisplay has as many keys as there are group nodes with members.
C27_NoGroupLost ==
    Built =>
        /\ \A id \in GroupsWithMembers : \A other \in GroupsWithMembers \ {id} :
              displayName(graph, graph.Nodes[id]) # displayName(graph, graph.Nodes[other])
        /\ Cardinality(DOMAIN GetGroupsForDisplay(graph)) = Cardinality(GroupsWithMembers)

ExplicitIDs == Range(GetExplicitNodes(graph, Enumerate(DOMAIN graph.Nodes)))

DerivedIDs == Range(GetDerivedNodes(graph, Enumerate(DOMAIN graph.Nodes)))

\* config node c defines the group node id: it has a definition of the group's name,
\* with the group's explicit list, at the group's scope
Defines(c, id) ==
    /\ HasKey(graph.Nodes[c].Config[1].Groups, graph.Nodes[id].Name)
    /\ graph.Nodes[c].Config[1].Groups[graph.Nodes[id].Name]
           = graph.Nodes[id].Group[1].ExplicitRepos
    /\ GroupScope(c) = GetPathString(graph.Nodes[id])

\* C20: in every state of a build each node of the graph has exactly one of IsExplicit
\* and IsDerived, so that GetExplicitNodes and GetDerivedNodes split the node set in
\* two; in a built graph the derived nodes are the group nodes, and the SourceConfig of
\* each is the ID of the config node that defines it.
C20_ExplicitXorDerived ==
    /\ \A id \in DOMAIN graph.Nodes : graph.Nodes[id].IsExplicit # graph.Nodes[id].IsDerived
    /\ ExplicitIDs \cup DerivedIDs = DOMAIN graph.Nodes
    /\ ExplicitIDs \cap DerivedIDs = {}
    /\ Built =>
           /\ DerivedIDs = GroupIDs
           /\ \A id \in GroupIDs :
                  /\ graph.Nodes[id].SourceConfig \in ConfigIDs
                  /\ Defines(graph.Nodes[id].SourceConfig, id)

C20_Witness ==
    /\ Built
    /\ Cardinality(GroupIDs) = 2
    /\ RepositoryIDs # {}
    /\ \E id, other \in GroupIDs : graph.Nodes[id].SourceConfig # graph.Nodes[other].SourceConfig

\* the relationships of a type that leave a node
Outgoing(relType, fromID) ==
    {r \in DOMAIN graph.Relationships :
        graph.Relationships[r].Type = relType /\ graph.Relationships[r].FromID = fromID}

IncludedBy(id) == {graph.Relationships[r].ToID : r \in Outgoing(RelationIncludes, id)}

\* the group node has one incoming defines relationship, from the config node that
\* declares it
DefinedOnce(id) ==
    /\ Cardinality(Incoming(RelationDefines, id)) = 1
    /\ \A r \in Incoming(RelationDefines, id) :
           /\ graph.Relationships[r].FromID \in ConfigIDs
           /\ Defines(graph.Relationships[r].FromID, id)

\* The statement of C23 as the specification has it: every member name has a
\* repository node, which the group includes.
C23_EveryMemberIncluded ==
    Built =>
        \A id \in GroupIDs :
            /\ DefinedOnce(id)
            /\ IncludedBy(id) \subseteq RepositoryIDs
            /\ \A name \in Members(id) :
                   \E r \in IncludedBy(id) : graph.Nodes[r].Name = name
            /\ {graph.Nodes[r].Name : r \in IncludedBy(id)} = Members(id)

\* the members of a group that are names of repository nodes
KnownMembers(id) == Members(id) \cap {graph.Nodes[r].Name : r \in RepositoryIDs}

\* C23: in a built graph each group node has exactly one incoming defines
\* relationship, from the config node that declares it; it has an includes relationship
\* to the repository node of every member name that is the name of a repository node,
\* and the targets of its includes relationships are exactly those repository nodes.
C23_GroupRelationships ==
    Built =>
        \A id \in GroupIDs :
            /\ DefinedOnce(id)
            /\ IncludedBy(id) = {r \in RepositoryIDs : graph.Nodes[r].Name \in KnownMembers(id)}

C23_Witness ==
    /\ Built
    /\ \E id \in GroupIDs :
           /\ Cardinality(IncludedBy(id)) = 2
           /\ graph.Nodes[id].Group[1].InheritedRepos # <<>>
    /\ \E id \in GroupIDs : graph.Nodes[id].Group[1].ExplicitRepos # <<>> /\ IncludedBy(id) # {}

\* the tag and label nodes a carrier is linked to
TagTargets(c) == {graph.Relationships[r].ToID : r \in Outgoing(RelationTaggedWith, c)}
LabelTargets(c) == {graph.Relationships[r].ToID : r \in Outgoing(RelationLabeledWith, c)}

\* the tag nodes that a use of a tag resolves to
ResolvedTag(use) == TagTargets(use[1]) \cap TagNodesFor(use[2], TagValue(use))

\* C24: in a built graph two tag occurrences whose name or value differ resolve to
\* two distinct tag nodes, each the node of its own (name, value) pair, also when a
\* name or a value contains "_"; two occurrences of a label name resolve to the one
\* label node of that name.
C24_TagsKeyedByNameAndValue ==
    Built =>
        /\ \A u \in TagUses : \A v \in TagUses :
              (u[2] # v[2] \/ TagValue(u) # TagValue(v)) =>
                  \E s \in ResolvedTag(u) : \E t \in ResolvedTag(v) : s # t
        /\ \A u \in LabelUses : \A v \in LabelUses :
              u[2] = v[2] =>
                  /\ Cardinality(LabelNodesFor(u[2])) = 1
                  /\ LabelNodesFor(u[2]) \subseteq LabelTargets(u[1]) \cap LabelTargets(v[1])

(***************************************************************************)
(* Properties of the merged view                                           *)
(***************************************************************************)
\* the global sections of the config nodes at level 1, in the order of the type index
TopLevelGlobals ==
    LET ids == SelectSeq(GetNodesByType(graph, NodeTypeConfig),
                         LAMBDA id : graph.Nodes[id].Level = 1)
    IN [i \in 1..Len(ids) |-> graph.Nodes[ids[i]].Config[1].Global]

\* the first value of a field that is set, or the default when no section sets it
FirstSet(globals, field, unset, default) ==
    LET set == SelectSeq(globals, LAMBDA global : global[field] # unset)
    IN IF Len(set) = 0 THEN default ELSE set[1][field]

FirstEntry(globals, key) ==
    LET set == SelectSeq(globals, LAMBDA global : key \in DOMAIN global.Environment)
    IN set[1].Environment[key]

\* C19: the global settings GetMergedConfig returns are, for each field, the first
\* value set by a config node at level 1 (in the order of the type index), or the
\* default when no such node sets it; config nodes at other levels play no part.
C19_FirstSettingWins ==
    (pc = "merge" /\ last.op = "GetMergedConfig") =>
        LET merged == last.ret[1].Global
            keys == UNION {DOMAIN TopLevelGlobals[i].Environment : i \in DOMAIN TopLevelGlobals}
        IN /\ merged.BasePath = FirstSet(TopLevelGlobals, "BasePath", EmptyStr, EmptyStr)
           /\ merged.Workers = FirstSet(TopLevelGlobals, "Workers", 0, DefaultWorkers)
           /\ merged.Timeout = FirstSet(TopLevelGlobals, "Timeout", 0, DefaultTimeout)
           /\ Len(merged.Environment) = 1 =>
                  /\ DOMAIN merged.Environment[1] = keys
                  /\ \A key \in keys : merged.Environment[1][key] = FirstEntry(TopLevelGlobals, key)
           /\ Len(merged.Environment) = 0 => keys = {}
(***************************************************************************)
(* Properties of the executor pool                                         *)
(***************************************************************************)
\* the operations whose results have been put on the channel Execute returned
Delivered ==
    [i \in 1..(Len(received) + Len(results.buf)) |->
        LET r == (received \o results.buf)[i]
        IN [Repository |-> r.Repository, Command |-> r.Operation]]

\* C28: with at least one worker, no operation ever has more results on the channel
\* Execute returned than it was submitted times; when the channel is closed and the
\* context is not cancelled, each operation has as many results as it was submitted
\* times; and every call of Execute leads to a state where the channel is closed and
\* the dispatcher, the sender and every worker have returned.
C28_ExecuteDelivers ==
    /\ [](workerCount >= 1 =>
            /\ \A op \in Operations :
                   Occurrences(Delivered, op) <= Occurrences(operations, op)
            /\ (results.closed /\ ~ctxDone) =>
                   \A op \in Operations :
                       Occurrences(Delivered, op) = Occurrences(operations, op))
    /\ ((workerCount >= 1 /\ dispatcher.pc = "start") ~> (results.closed /\ Settled))

\* two workers have worked off two operations, the context is not cancelled, the
\* channel is closed and the caller has read both results
C28_Witness ==
    /\ pc = "pool"
    /\ workerCount = 2
    /\ Len(operations) = 2
    /\ ~ctxDone
    /\ results.closed /\ Settled
    /\ Len(received) = 2

\* C29: no call of Shutdown panics, whatever calls came before and whenever its
\* context is cancelled; when Shutdown has returned nil the pool is not started; and
\* a call on a pool that is not started returns nil and changes nothing of the pool.
C29_ShutdownSafe ==
    /\ [](caller.pc # "panic")
    /\ [](caller.ret = "nil" => ~started)
    /\ [][(caller.pc = "idle" /\ ~started /\ caller'.shutdowns = caller.shutdowns + 1)
             => /\ caller'.pc = "idle" /\ caller'.ret = "nil"
                /\ UNCHANGED <<workerCount, started, workers, mu, waiter>>]_vars

(***************************************************************************)
(* Properties of the loader                                                *)
(***************************************************************************)
\* every file read carries a version, a worker count in 1..100, a timeout of at
\* least one second and a repository with a name, a path and a URL
Qualified ==
    \A p \in DOMAIN fs :
        /\ fs[p].Version # EmptyStr
        /\ fs[p].Global.Workers \in 1..100
        /\ fs[p].Global.Timeout >= Second
        /\ Len(fs[p].Repositories) >= 1
        /\ \A i \in 1..Len(fs[p].Repositories) :
               /\ fs[p].Repositories[i].Name # EmptyStr
               /\ fs[p].Repositories[i].Path # EmptyStr
               /\ fs[p].Repositories[i].URL # EmptyStr

\* C30: when BuildGraph has returned a graph for such a hierarchy, LoadConfig returns
\* the merged configuration and no error.
C30_LoadConfigSucceeds ==
    (pc = "loaded" /\ result.graph # Nil /\ Qualified)
        => /\ last.err = NoError
           /\ last.ret = Some(GetMergedConfig(graph))

====
